---- MODULE Spec2Model ----
(***************************************************************************)
(* GitHop: the PostgreSQL tables, the jobs that write them and the HTTP    *)
(* routes that read them or start the jobs.                                *)
(*                                                                         *)
(* Spec        tables `repositories` and `repository_stats` under the      *)
(*             category syncs (githubService, newService), the developer   *)
(*             scout's stub insertion, stub hydration and the "missing"    *)
(*             backfill jobs of workerService.                             *)
(* SpecUpsert  the same sync passes, recording the image of the row after  *)
(*             every INSERT ... ON CONFLICT statement of a pass.           *)
(* SpecHealth  the health_score each sync path stores for one repository.  *)
(* SpecPage    a client paging through GET /api/developers or              *)
(*             GET /api/repos/top by keyset cursor.                        *)
(* SpecDev     table `developers` under saveDeveloperToDB.                 *)
(* SpecFilter  GET /api/repos/filter over an unchanging catalogue.         *)
(* SpecHttp    the routes that start a job, from request to response.      *)
(* SpecActivity, SpecContrib  one run of fetchAndSaveCommitActivity and of *)
(*             fetchAndSaveContributors for one repository.                *)
(* SpecPersona, SpecBadge  calculatePersonas and identifyBadges.           *)
(* SpecTop     the batch loop of fetchTopReposWithCursor.                  *)
(* SpecTopRepos  table `developer_top_repos` of one developer.             *)
(* SpecAtomic  the connections and COMMITs of one sync batch.              *)
(* SpecConcurrent  two overlapping runs of fetchDetailsAndSave.            *)
(* SpecGrowth  one GH-Archive sync and the growth columns it stores.       *)
(* SpecWork    calculateCurrentWork over a developer's repositories.       *)
(* SpecTopLive  SpecTop with the loop scheduled fairly.                    *)
(* SpecEmbed   the loop of embedRepositories.                              *)
(* SpecBackfill  repeated runs of updateMissingContributors.               *)
(* SpecPool    jobs checking clients out of the connection pool.           *)
(* SpecDevList, SpecSession  the requests and the stored filters of the    *)
(*             DeveloperList component.                                    *)
(***************************************************************************)
EXTENDS Integers, Naturals, Sequences, FiniteSets, TLC

\* ------------------------------------------------------------------ bounds
MaxRepos == 2      \* number of distinct GitHub repositories (databaseId 1..MaxRepos)
MaxBatch == 2      \* longest list of enriched repositories one pass saves
MaxClock == 3      \* number of transactions a behaviour of Spec may run
MaxPasses == 2     \* number of sync passes a behaviour of SpecUpsert may run

\* ------------------------------------------------------------- SQL values
NULL  == -1                 \* SQL NULL / JavaScript undefined bound as a parameter
NoRow == [absent |-> TRUE]  \* no row with that key in the table

GithubIds == 1..MaxRepos
FullNames == {"o/a", "o/b"}

\* The fields of a GraphQL `repository` node that the tracked columns read.
RepoNodes(stars) ==
  [databaseId : GithubIds, nameWithOwner : FullNames, stargazerCount : stars]

\* Lists of at most n elements of S.
SeqUpTo(S, n) == UNION {[1..k -> S] : k \in 0..n}

GitHubCategories  == {"growing", "trending"}
ArchiveCategories == {"trending_weekly", "trending_monthly", "trending_quarterly"}

VARIABLES
  repositories,      \* github_id -> row of table repositories, or NoRow
  repository_stats,  \* repo_github_id -> row of table repository_stats, or NoRow
  clock,             \* the database clock: NOW() of the latest transaction
  lastOp,            \* history: the operation the latest step performed
  upstream,          \* SpecHealth: the repository as GitHub reports it
  health_score,      \* SpecHealth: repository_stats.health_score of that repository
  table,             \* SpecPage: the rows that match the request's filters
  endpoint,          \* SpecPage: the route the client pages through
  limit,             \* SpecPage: the limit parameter of every request
  cursor,            \* SpecPage: the nextCursor of the latest response
  seen,              \* SpecPage: the rows of all responses so far, in order
  paging,            \* SpecPage: "first", "more" or "done"
  route,             \* SpecHttp: the route of the request being served, "" when idle
  job,               \* SpecHttp: the job the request started: where it stands
  response,          \* SpecHttp: the HTTP status sent, NULL before the response
  answered,          \* SpecHttp: requests completed so far
  catalog,           \* SpecFilter: the joined rows of repositories and repository_stats
  request,           \* SpecFilter: the query parameters of the latest request
  result,            \* SpecFilter: the rows of the latest response, in order
  developers,        \* SpecDev: github_id -> row of table developers, or NoRow
  activity, \* SpecActivity: one run of fetchAndSaveCommitActivity
  contrib, \* SpecContrib: one run of fetchAndSaveContributors
  persona, \* SpecPersona: the input and the result of calculatePersonas
  badge, \* SpecBadge: the input and the result of identifyBadges
  topsync, \* SpecTop: the loop of fetchTopReposWithCursor
  toprepos, \* SpecTopRepos: developer_top_repos of one developer and the latest run
  runs, \* SpecConcurrent: the two overlapping runs of fetchDetailsAndSave
  growth, \* SpecGrowth: one GH-Archive sync and the growth columns of repository_stats
  work, \* SpecWork: the input and the result of calculateCurrentWork
  embed, \* SpecEmbed: column embedding of repositories and the loop of embedRepositories
  backfill, \* SpecBackfill: the flags contributors_fetched and the runs of the 'missing' job
  conns, \* SpecPool: the jobs that check connections out of the pool
  devlist, \* SpecDevList: the state of component DeveloperList and its requests in flight
  session  \* SpecSession: the filters of DeveloperList and their keys in sessionStorage

dbVars == <<repositories, repository_stats, clock>>
healthVars == <<upstream, health_score>>
pageVars == <<table, endpoint, limit, cursor, seen, paging>>
httpVars == <<route, job, response, answered>>
filterVars == <<catalog, request, result>>
laterVars == <<activity, contrib, persona, badge, topsync, toprepos, runs, growth, work, embed, backfill, conns, devlist, session>>
activityOthers == <<contrib, persona, badge, topsync, toprepos, runs, growth, work, embed, backfill, conns, devlist, session>>
contribOthers == <<activity, persona, badge, topsync, toprepos, runs, growth, work, embed, backfill, conns, devlist, session>>
personaOthers == <<activity, contrib, badge, topsync, toprepos, runs, growth, work, embed, backfill, conns, devlist, session>>
badgeOthers == <<activity, contrib, persona, topsync, toprepos, runs, growth, work, embed, backfill, conns, devlist, session>>
topsyncOthers == <<activity, contrib, persona, badge, toprepos, runs, growth, work, embed, backfill, conns, devlist, session>>
topreposOthers == <<activity, contrib, persona, badge, topsync, runs, growth, work, embed, backfill, conns, devlist, session>>
runsOthers == <<activity, contrib, persona, badge, topsync, toprepos, growth, work, embed, backfill, conns, devlist, session>>
growthOthers == <<activity, contrib, persona, badge, topsync, toprepos, runs, work, embed, backfill, conns, devlist, session>>
workOthers == <<activity, contrib, persona, badge, topsync, toprepos, runs, growth, embed, backfill, conns, devlist, session>>
embedOthers == <<activity, contrib, persona, badge, topsync, toprepos, runs, growth, work, backfill, conns, devlist, session>>
backfillOthers == <<activity, contrib, persona, badge, topsync, toprepos, runs, growth, work, embed, conns, devlist, session>>
connsOthers == <<activity, contrib, persona, badge, topsync, toprepos, runs, growth, work, embed, backfill, devlist, session>>
devlistOthers == <<activity, contrib, persona, badge, topsync, toprepos, runs, growth, work, embed, backfill, conns, session>>
sessionOthers == <<activity, contrib, persona, badge, topsync, toprepos, runs, growth, work, embed, backfill, conns, devlist>>
vars == <<dbVars, lastOp, healthVars, pageVars, httpVars, filterVars, developers, laterVars>>

\* ------------------------------------------------------------ SQL helpers

\* a || b of JavaScript for a number a: 0 is falsy.
JsOr(a, b) == IF a = 0 THEN b ELSE a

\* array_remove(arr, x)
array_remove(arr, x) == SelectSeq(arr, LAMBDA e : e # x)

\* array_append(arr, x)
array_append(arr, x) == Append(arr, x)

\* x = ANY(arr)
EqAny(x, arr) == \E i \in 1..Len(arr) : arr[i] = x

\* The set of category tags a row carries.
TagSet(row) == {row.categories[i] : i \in 1..Len(row.categories)}

\* UNIQUE(full_name): another row already holds the name.
FullNameTaken(repos, gid, name) ==
  \E g \in GithubIds \ {gid} : repos[g] # NoRow /\ repos[g].full_name = name

\* The state of a transaction: the tables as the transaction sees them,
\* whether a statement has raised, and (history) the image of the row after
\* each upsert statement.
Tx(repos, stats) == [repos |-> repos, stats |-> stats, failed |-> FALSE, log |-> <<>>]

\* UPDATE repositories SET categories = array_remove(categories, $1)
\* WHERE $1 = ANY(categories)
ClearCategory(repos, category) ==
  [g \in GithubIds |->
     IF repos[g] # NoRow /\ EqAny(category, repos[g].categories)
     THEN [repos[g] EXCEPT !.categories = array_remove(@, category)]
     ELSE repos[g]]

\* The pass of category 'top' clears nothing; every other pass clears first.
ClearBeforePass(repos, category) ==
  IF category = "top" THEN repos ELSE ClearCategory(repos, category)

\* Mutant: the upsert overwrites the tags with the pass's own.
UpsertCategoriesOverwrite(categories, category) == <<category>>

\* Mutant: the upsert takes the tag off a row that carries it.
UpsertCategoriesToggle(categories, category) ==
  IF EqAny(category, categories) THEN array_remove(categories, category)
  ELSE array_append(categories, category)

\* categories = array_append(array_remove(repositories.categories, $35), $35)
UpsertCategories(categories, category) ==
  array_append(array_remove(categories, category), category)

\* History: the image of row gid after a statement, appended to the log.
Logged(tx, gid) == [tx EXCEPT !.log = Append(@, tx.repos[gid])]

\* INSERT INTO repositories ... VALUES (..., NOW(), ARRAY[$35], 'complete')
\* ON CONFLICT (github_id) DO UPDATE SET ..., for one repository.
UpsertRepository(tx, repo, category, now) ==
  LET gid   == repo.databaseId
      stars == JsOr(repo.stargazerCount, NULL)
  IN IF tx.failed \/ FullNameTaken(tx.repos, gid, repo.nameWithOwner)
     THEN [tx EXCEPT !.failed = TRUE]
     ELSE IF tx.repos[gid] = NoRow
     THEN Logged([tx EXCEPT !.repos[gid] =
             [full_name    |-> repo.nameWithOwner,
              stars_count  |-> stars,
              categories   |-> <<category>>,
              sync_status  |-> "complete",
              last_fetched |-> now]], gid)
     ELSE Logged([tx EXCEPT !.repos[gid] =
             [@ EXCEPT !.full_name    = repo.nameWithOwner,
                       !.stars_count  = stars,
                       !.categories   = UpsertCategories(@, category),
                       !.sync_status  = "complete",
                       !.last_fetched = now]], gid)

RECURSIVE batchInsertToTable(_, _, _, _)
batchInsertToTable(tx, repos, category, now) ==
  IF repos = <<>> THEN tx
  ELSE batchInsertToTable(UpsertRepository(tx, Head(repos), category, now),
                          Tail(repos), category, now)

\* A fresh repository_stats row: the three work-queue flags default to FALSE.
NewStatsRow ==
  [commit_activity_fetched |-> FALSE,
   recent_commits_fetched  |-> FALSE,
   contributors_fetched    |-> FALSE]

\* INSERT INTO repository_stats ... ON CONFLICT (repo_github_id) DO UPDATE SET
\* <metrics only>: the flags of an existing row are left alone.
UpsertStats(tx, gid) ==
  IF tx.failed THEN tx
  ELSE IF tx.stats[gid] = NoRow
  THEN [tx EXCEPT !.stats[gid] = NewStatsRow]
  ELSE tx

RECURSIVE calculateAndSaveStats(_, _)
calculateAndSaveStats(tx, repos) ==
  IF repos = <<>> THEN tx
  ELSE calculateAndSaveStats(UpsertStats(tx, Head(repos).databaseId), Tail(repos))

\* BEGIN; [clear the tag;] batchInsertToTable; calculateAndSaveStats: the
\* transaction one sync pass runs, up to its COMMIT or ROLLBACK.
\* (githubService runs calculateAndSaveStats on a connection of its own, after
\* the last upsert and before the COMMIT; it is not reached when an upsert
\* raised, so both tables change or neither as long as no COMMIT raises.
\* SpecAtomic has the two connections and the COMMITs that raise.)
SyncTx(category, validRepos, now) ==
  calculateAndSaveStats(
    batchInsertToTable(
      Tx(ClearBeforePass(repositories, category), repository_stats),
      validRepos, category, now),
    validRepos)

\* COMMIT, or ROLLBACK when a statement raised.
Commit(tx) ==
  /\ repositories' = IF tx.failed THEN repositories ELSE tx.repos
  /\ repository_stats' = IF tx.failed THEN repository_stats ELSE tx.stats

IdsOf(repos) == {repos[i].databaseId : i \in 1..Len(repos)}

\* History record of one operation: its kind, its category, the repositories
\* it was given or selected, whether its transaction committed, the
\* repositories whose fetch answered, and (SpecUpsert) its input and row images.
Op(op, category, ids, ok, fetched) ==
  [op |-> op, category |-> category, ids |-> ids, ok |-> ok, fetched |-> fetched,
   repos |-> <<>>, rows |-> <<>>]

Tick ==
  /\ clock < MaxClock
  /\ clock' = clock + 1
  /\ UNCHANGED <<healthVars, pageVars, httpVars, filterVars, developers, laterVars>>

\* The variables of the other specifications, at rest.
NoDb ==
  /\ repositories = [g \in GithubIds |-> NoRow]
  /\ repository_stats = [g \in GithubIds |-> NoRow]
  /\ clock = 0
NoHealth == upstream = NoRow /\ health_score = NULL
NoHttp == route = "" /\ job = "none" /\ response = NULL /\ answered = 0
NoFilter == catalog = {} /\ request = NoRow /\ result = <<>>
NoDev == developers = <<>>
NoLater == activity = NoRow /\ contrib = NoRow /\ persona = NoRow /\ badge = NoRow /\ topsync = NoRow /\ toprepos = NoRow /\ runs = NoRow /\ growth = NoRow /\ work = NoRow /\ embed = NoRow /\ backfill = NoRow /\ conns = NoRow /\ devlist = NoRow /\ session = NoRow
NoActivityOthers == contrib = NoRow /\ persona = NoRow /\ badge = NoRow /\ topsync = NoRow /\ toprepos = NoRow /\ runs = NoRow /\ growth = NoRow /\ work = NoRow /\ embed = NoRow /\ backfill = NoRow /\ conns = NoRow /\ devlist = NoRow /\ session = NoRow
NoContribOthers == activity = NoRow /\ persona = NoRow /\ badge = NoRow /\ topsync = NoRow /\ toprepos = NoRow /\ runs = NoRow /\ growth = NoRow /\ work = NoRow /\ embed = NoRow /\ backfill = NoRow /\ conns = NoRow /\ devlist = NoRow /\ session = NoRow
NoPersonaOthers == activity = NoRow /\ contrib = NoRow /\ badge = NoRow /\ topsync = NoRow /\ toprepos = NoRow /\ runs = NoRow /\ growth = NoRow /\ work = NoRow /\ embed = NoRow /\ backfill = NoRow /\ conns = NoRow /\ devlist = NoRow /\ session = NoRow
NoBadgeOthers == activity = NoRow /\ contrib = NoRow /\ persona = NoRow /\ topsync = NoRow /\ toprepos = NoRow /\ runs = NoRow /\ growth = NoRow /\ work = NoRow /\ embed = NoRow /\ backfill = NoRow /\ conns = NoRow /\ devlist = NoRow /\ session = NoRow
NoTopsyncOthers == activity = NoRow /\ contrib = NoRow /\ persona = NoRow /\ badge = NoRow /\ toprepos = NoRow /\ runs = NoRow /\ growth = NoRow /\ work = NoRow /\ embed = NoRow /\ backfill = NoRow /\ conns = NoRow /\ devlist = NoRow /\ session = NoRow
NoTopreposOthers == activity = NoRow /\ contrib = NoRow /\ persona = NoRow /\ badge = NoRow /\ topsync = NoRow /\ runs = NoRow /\ growth = NoRow /\ work = NoRow /\ embed = NoRow /\ backfill = NoRow /\ conns = NoRow /\ devlist = NoRow /\ session = NoRow
NoRunsOthers == activity = NoRow /\ contrib = NoRow /\ persona = NoRow /\ badge = NoRow /\ topsync = NoRow /\ toprepos = NoRow /\ growth = NoRow /\ work = NoRow /\ embed = NoRow /\ backfill = NoRow /\ conns = NoRow /\ devlist = NoRow /\ session = NoRow
NoGrowthOthers == activity = NoRow /\ contrib = NoRow /\ persona = NoRow /\ badge = NoRow /\ topsync = NoRow /\ toprepos = NoRow /\ runs = NoRow /\ work = NoRow /\ embed = NoRow /\ backfill = NoRow /\ conns = NoRow /\ devlist = NoRow /\ session = NoRow
NoWorkOthers == activity = NoRow /\ contrib = NoRow /\ persona = NoRow /\ badge = NoRow /\ topsync = NoRow /\ toprepos = NoRow /\ runs = NoRow /\ growth = NoRow /\ embed = NoRow /\ backfill = NoRow /\ conns = NoRow /\ devlist = NoRow /\ session = NoRow
NoEmbedOthers == activity = NoRow /\ contrib = NoRow /\ persona = NoRow /\ badge = NoRow /\ topsync = NoRow /\ toprepos = NoRow /\ runs = NoRow /\ growth = NoRow /\ work = NoRow /\ backfill = NoRow /\ conns = NoRow /\ devlist = NoRow /\ session = NoRow
NoBackfillOthers == activity = NoRow /\ contrib = NoRow /\ persona = NoRow /\ badge = NoRow /\ topsync = NoRow /\ toprepos = NoRow /\ runs = NoRow /\ growth = NoRow /\ work = NoRow /\ embed = NoRow /\ conns = NoRow /\ devlist = NoRow /\ session = NoRow
NoConnsOthers == activity = NoRow /\ contrib = NoRow /\ persona = NoRow /\ badge = NoRow /\ topsync = NoRow /\ toprepos = NoRow /\ runs = NoRow /\ growth = NoRow /\ work = NoRow /\ embed = NoRow /\ backfill = NoRow /\ devlist = NoRow /\ session = NoRow
NoDevlistOthers == activity = NoRow /\ contrib = NoRow /\ persona = NoRow /\ badge = NoRow /\ topsync = NoRow /\ toprepos = NoRow /\ runs = NoRow /\ growth = NoRow /\ work = NoRow /\ embed = NoRow /\ backfill = NoRow /\ conns = NoRow /\ session = NoRow
NoSessionOthers == activity = NoRow /\ contrib = NoRow /\ persona = NoRow /\ badge = NoRow /\ topsync = NoRow /\ toprepos = NoRow /\ runs = NoRow /\ growth = NoRow /\ work = NoRow /\ embed = NoRow /\ backfill = NoRow /\ conns = NoRow /\ devlist = NoRow
NoPage ==
  /\ table = {} /\ endpoint = "" /\ limit = 0
  /\ cursor = <<>> /\ seen = <<>> /\ paging = "done"

NoOp == Op("init", "", {}, TRUE, {})

\* The tables and requests of the specifications above, at rest.
baseVars == <<lastOp, dbVars, healthVars, pageVars, httpVars, filterVars, developers>>
NoBase == NoDb /\ lastOp = NoOp /\ NoHealth /\ NoPage /\ NoHttp /\ NoFilter /\ NoDev

\* ------------------------------------------------------------ sync passes

\* githubService.fetchDetailsAndSave(rawRepos, category) for 'growing' and
\* 'trending', newService.fetchDetailsAndSave for the GH-Archive categories:
\* validRepos is what enrichWithGraphQL returned.
fetchDetailsAndSave(category, validRepos) ==
  /\ Tick
  /\ LET tx == SyncTx(category, validRepos, clock')
     IN /\ Commit(tx)
        /\ lastOp' = Op("sync", category, IdsOf(validRepos), ~tx.failed, {})

\* One batch of githubService.fetchTopReposWithCursor: no tag is cleared,
\* and an empty batch opens no transaction.
fetchTopReposWithCursor(repos) ==
  /\ repos # <<>>
  /\ Tick
  /\ LET tx == SyncTx("top", repos, clock')
     IN /\ Commit(tx)
        /\ lastOp' = Op("sync", "top", IdsOf(repos), ~tx.failed, {})

\* ------------------------------------------------------- developer scout

\* Mutant: ON CONFLICT (github_id) DO UPDATE SET sync_status = 'stub'.
StubInsertOrReset(repos, repoData, now) ==
  IF repos[repoData.databaseId] = NoRow
  THEN [repos EXCEPT ![repoData.databaseId] =
          [full_name    |-> repoData.nameWithOwner,
           stars_count  |-> JsOr(repoData.stargazerCount, 0),
           categories   |-> <<"stub">>,
           sync_status  |-> "stub",
           last_fetched |-> now]]
  ELSE [repos EXCEPT ![repoData.databaseId].sync_status = "stub"]

\* INSERT INTO repositories (...) VALUES (..., 'stub', ARRAY['stub'], NOW())
\* ON CONFLICT (github_id) DO NOTHING
StubInsert(repos, repoData, now) ==
  IF repos[repoData.databaseId] = NoRow
  THEN [repos EXCEPT ![repoData.databaseId] =
          [full_name    |-> repoData.nameWithOwner,
           stars_count  |-> JsOr(repoData.stargazerCount, 0),
           categories   |-> <<"stub">>,
           sync_status  |-> "stub",
           last_fetched |-> now]]
  ELSE repos

\* developerWorkerService.findInternalRepo(owner, name, repoData): look the
\* repository up by full_name; when no row has that name, insert the stub.
findInternalRepo(repoData) ==
  /\ Tick
  /\ repositories' =
       IF \E g \in GithubIds : repositories[g] # NoRow
                               /\ repositories[g].full_name = repoData.nameWithOwner
       THEN repositories
       ELSE StubInsert(repositories, repoData, clock')
  /\ lastOp' = Op("scout", "stub", {repoData.databaseId}, TRUE, {})
  /\ UNCHANGED repository_stats

\* --------------------------------------------------------- stub hydration

NoNode == [none |-> TRUE]   \* the GraphQL request failed or returned no repository

\* workerService.fetchAndEnrichRepo(githubId, fullName): one transaction that
\* UPDATEs the row to the fetched details and upserts its statistics; a
\* UNIQUE(full_name) violation rolls it back and hydrateStubs logs the error.
fetchAndEnrichRepo(db, gid, repo, now) ==
  IF repo = NoNode \/ FullNameTaken(db.repos, gid, repo.nameWithOwner)
  THEN db
  ELSE [repos |-> [db.repos EXCEPT ![gid] =
                     [@ EXCEPT !.full_name    = repo.nameWithOwner,
                               !.stars_count  = repo.stargazerCount,
                               !.sync_status  = "complete",
                               !.last_fetched = now]],
        stats |-> UpsertStats(Tx(db.repos, db.stats), gid).stats]

RECURSIVE hydrateRows(_, _, _, _)
hydrateRows(db, rows, fetched, now) ==
  IF rows = <<>> THEN db
  ELSE hydrateRows(fetchAndEnrichRepo(db, Head(rows), fetched[Head(rows)], now),
                   Tail(rows), fetched, now)

\* The orders in which a SELECT without ORDER BY may return the rows S.
Orders(S) == {o \in [1..Cardinality(S) -> S] : \A i, j \in DOMAIN o : i # j => o[i] # o[j]}

\* workerService.hydrateStubs(): every row WHERE sync_status = 'stub', one
\* after the other; fetched[g] is what GitHub answers for row g.
hydrateStubs(rows, fetched) ==
  /\ rows # <<>>
  /\ Tick
  /\ LET db == hydrateRows([repos |-> repositories, stats |-> repository_stats],
                           rows, fetched, clock')
     IN /\ repositories' = db.repos
        /\ repository_stats' = db.stats
        /\ lastOp' = Op("hydrate", "", {rows[i] : i \in 1..Len(rows)}, TRUE,
                        {g \in DOMAIN fetched : fetched[g] # NoNode})

Stubs == {g \in GithubIds : repositories[g] # NoRow /\ repositories[g].sync_status = "stub"}

\* ------------------------------------------------- "missing" backfill jobs

\* WHERE r.sync_status = 'complete' AND (rs.<flag> IS FALSE OR rs.<flag> IS NULL)
\* over repositories LEFT JOIN repository_stats.  (The LIMIT of 50 or 100
\* rows is above MaxRepos.)
Missing(flag) ==
  {g \in GithubIds : /\ repositories[g] # NoRow
                     /\ repositories[g].sync_status = "complete"
                     /\ (repository_stats[g] = NoRow \/ ~repository_stats[g][flag])}

\* What fetching and saving one repository's data comes to:
\*   "saved"  the response carried data and the save transaction committed;
\*   "empty"  the request succeeded with nothing in it;
\*   "error"  the request failed, or the save transaction rolled back.
Outcomes == {"saved", "empty", "error"}

\* UPDATE repository_stats SET <flag> = TRUE WHERE repo_github_id = $1
SetFetched(stats, gid, flag) ==
  IF stats[gid] = NoRow THEN stats ELSE [stats EXCEPT ![gid][flag] = TRUE]

\* fetchAndSaveCommitActivity / fetchAndSaveRecentCommits: an empty array
\* returns before the save transaction.
SaveUnlessEmpty(stats, gid, flag, outcome) ==
  IF outcome = "saved" THEN SetFetched(stats, gid, flag) ELSE stats

\* The contributors fetch has one more outcome:
\*   "fallback_empty"  the REST request was refused (403, 500, ...) and the
\*                     GraphQL fallback answered with no contributor.
ContributorOutcomes == Outcomes \cup {"fallback_empty"}

\* fetchAndSaveContributors: a REST response that is ok is saved whatever
\* its length (saveContributorsToDB sets the flag first); the GraphQL
\* fallback returns before the save when it found no contributor.
SaveContributors(stats, gid, outcome) ==
  IF outcome \in {"saved", "empty"} THEN SetFetched(stats, gid, "contributors_fetched")
  ELSE stats

Answered(outcome) == {g \in DOMAIN outcome : outcome[g] # "error"}

\* workerService.updateMissingContributors()
updateMissingContributors(outcome) ==
  /\ DOMAIN outcome = Missing("contributors_fetched")
  /\ DOMAIN outcome # {}
  /\ Tick
  /\ repository_stats' =
       [g \in GithubIds |->
          IF g \in DOMAIN outcome
          THEN SaveContributors(repository_stats, g, outcome[g])[g]
          ELSE repository_stats[g]]
  /\ lastOp' = Op("contributors_fetched", "", DOMAIN outcome, TRUE, Answered(outcome))
  /\ UNCHANGED repositories

\* workerService.updateMissingCommitActivity()
updateMissingCommitActivity(outcome) ==
  /\ DOMAIN outcome = Missing("commit_activity_fetched")
  /\ DOMAIN outcome # {}
  /\ Tick
  /\ repository_stats' =
       [g \in GithubIds |->
          IF g \in DOMAIN outcome
          THEN SaveUnlessEmpty(repository_stats, g, "commit_activity_fetched", outcome[g])[g]
          ELSE repository_stats[g]]
  /\ lastOp' = Op("commit_activity_fetched", "", DOMAIN outcome, TRUE, Answered(outcome))
  /\ UNCHANGED repositories

\* workerService.updateMissingRecentCommits()
updateMissingRecentCommits(outcome) ==
  /\ DOMAIN outcome = Missing("recent_commits_fetched")
  /\ DOMAIN outcome # {}
  /\ Tick
  /\ repository_stats' =
       [g \in GithubIds |->
          IF g \in DOMAIN outcome
          THEN SaveUnlessEmpty(repository_stats, g, "recent_commits_fetched", outcome[g])[g]
          ELSE repository_stats[g]]
  /\ lastOp' = Op("recent_commits_fetched", "", DOMAIN outcome, TRUE, Answered(outcome))
  /\ UNCHANGED repositories

\* ------------------------------------------------------------------- Spec

SomeStars == {7}
Batches == SeqUpTo(RepoNodes(SomeStars), MaxBatch)

Init == NoDb /\ lastOp = NoOp /\ NoHealth /\ NoPage /\ NoHttp /\ NoFilter /\ NoDev /\ NoLater

Next ==
  \/ \E c \in GitHubCategories \cup ArchiveCategories, rs \in Batches :
       fetchDetailsAndSave(c, rs)
  \/ \E rs \in Batches : fetchTopReposWithCursor(rs)
  \/ \E n \in RepoNodes(SomeStars) : findInternalRepo(n)
  \/ \E rows \in Orders(Stubs) :
       \E fetched \in [Stubs -> {NoNode} \cup RepoNodes(SomeStars)] :
         /\ \A g \in Stubs : fetched[g] # NoNode => fetched[g].databaseId = g
         /\ hydrateStubs(rows, fetched)
  \/ \E outcome \in [Missing("contributors_fetched") -> ContributorOutcomes] :
       updateMissingContributors(outcome)
  \/ \E outcome \in [Missing("commit_activity_fetched") -> Outcomes] :
       updateMissingCommitActivity(outcome)
  \/ \E outcome \in [Missing("recent_commits_fetched") -> Outcomes] :
       updateMissingRecentCommits(outcome)

Spec == Init /\ [][Next]_vars

\* ------------------------------------------------------------- SpecUpsert

StarCounts == {0, 7}
RecordedBatches == SeqUpTo(RepoNodes(StarCounts), MaxBatch)

\* A sync pass as in Spec (fetchDetailsAndSave, or one batch of
\* fetchTopReposWithCursor for 'top'), with its input list and the image of
\* the row after each of its upserts kept in the history.
recordedPass(category, validRepos) ==
  /\ category = "top" => validRepos # <<>>
  /\ clock < MaxPasses
  /\ clock' = clock + 1
  /\ UNCHANGED <<healthVars, pageVars, httpVars, filterVars, developers, laterVars>>
  /\ LET tx == SyncTx(category, validRepos, clock')
     IN /\ Commit(tx)
        /\ lastOp' = [Op("sync", category, IdsOf(validRepos), ~tx.failed, {})
                        EXCEPT !.repos = validRepos, !.rows = tx.log]

NextUpsert ==
  \E c \in GitHubCategories \cup ArchiveCategories \cup {"top"}, rs \in RecordedBatches :
    recordedPass(c, rs)

SpecUpsert == Init /\ [][NextUpsert]_vars

\* ----------------------------------------------------------------- claims

HasTag(repos, g, tag) == repos[g] # NoRow /\ tag \in TagSet(repos[g])

AllTags == GitHubCategories \cup ArchiveCategories \cup {"top", "stub"}

\* C1: a sync pass of category c (any category but 'top') that commits
\* leaves tag c on exactly the repositories of its result set, and changes
\* no repository's membership in any other tag.
C1_PassTagsExactlyResultSet ==
  [][(lastOp'.op = "sync" /\ lastOp'.category # "top" /\ lastOp'.ok) =>
       \A g \in GithubIds :
         /\ HasTag(repositories', g, lastOp'.category) <=> g \in lastOp'.ids
         /\ \A tag \in AllTags \ {lastOp'.category} :
              HasTag(repositories', g, tag) <=> HasTag(repositories, g, tag)]_vars

\* A pass committed that took its tag off a repository outside the result
\* set (leaving it without tags) and put it on one that carries another tag.
C1_Witness ==
  /\ lastOp.op = "sync" /\ lastOp.category # "top" /\ lastOp.ok
  /\ \E g \in lastOp.ids : Cardinality(TagSet(repositories[g])) >= 2
  /\ \E g \in GithubIds \ lastOp.ids :
       repositories[g] # NoRow /\ repositories[g].categories = <<>>

\* The columns the idempotence of the upsert is about.
SameUpsertColumns(a, b) ==
  /\ a.stars_count = b.stars_count
  /\ TagSet(a) = TagSet(b)
  /\ a.sync_status = b.sync_status

\* Two neighbouring upserts of one pass had identical input.
RepeatedInPass(op, i) == op.ok /\ i + 1 <= Len(op.repos) /\ op.repos[i] = op.repos[i + 1]

\* The last upsert of a pass and the first upsert of the next pass of the
\* same category had identical input.
RepeatedAcrossPasses(op1, op2) ==
  /\ op1.op = "sync" /\ op1.ok /\ op1.repos # <<>>
  /\ op2.op = "sync" /\ op2.ok /\ op2.repos # <<>>
  /\ op1.category = op2.category
  /\ op1.repos[Len(op1.repos)] = Head(op2.repos)

\* C3 (as the code has it): upserting a repository twice in a row with
\* identical input and category leaves stars_count, the set of tags and
\* sync_status as the first upsert left them; last_fetched is the NOW() of
\* the transaction, so it is unchanged when both upserts run in one pass and
\* strictly later when the second runs in a later pass.
C3_UpsertIdempotent ==
  [][/\ \A i \in 1..MaxBatch :
          RepeatedInPass(lastOp', i) =>
            /\ SameUpsertColumns(lastOp'.rows[i], lastOp'.rows[i + 1])
            /\ lastOp'.rows[i + 1].last_fetched = lastOp'.rows[i].last_fetched
     /\ RepeatedAcrossPasses(lastOp, lastOp') =>
          /\ SameUpsertColumns(lastOp.rows[Len(lastOp.rows)], Head(lastOp'.rows))
          /\ Head(lastOp'.rows).last_fetched > lastOp.rows[Len(lastOp.rows)].last_fetched]_vars

\* C3 as the specification states it: last_fetched advances with every
\* repeated upsert.
C3_LastFetchedAlwaysAdvances ==
  [][/\ \A i \in 1..MaxBatch :
          RepeatedInPass(lastOp', i) =>
            /\ SameUpsertColumns(lastOp'.rows[i], lastOp'.rows[i + 1])
            /\ lastOp'.rows[i + 1].last_fetched > lastOp'.rows[i].last_fetched
     /\ RepeatedAcrossPasses(lastOp, lastOp') =>
          /\ SameUpsertColumns(lastOp.rows[Len(lastOp.rows)], Head(lastOp'.rows))
          /\ Head(lastOp'.rows).last_fetched > lastOp.rows[Len(lastOp.rows)].last_fetched]_vars

\* A second pass committed whose list names a repository twice over, with a
\* star count of 0, on a row an earlier pass had written.
C3_Witness ==
  /\ clock >= 2
  /\ RepeatedInPass(lastOp, 1)
  /\ lastOp.repos[1].stargazerCount = 0
  /\ Cardinality(TagSet(repositories[lastOp.repos[1].databaseId])) >= 2

\* C5: a complete row stays complete under every operation, and a row is a
\* stub after a step only if it was a stub before it or the developer scout
\* inserted it where no row was.
C5_StubOnlyBecomesComplete ==
  [][\A g \in GithubIds :
       /\ (repositories[g] # NoRow /\ repositories[g].sync_status = "complete") =>
            (repositories'[g] # NoRow /\ repositories'[g].sync_status = "complete")
       /\ (repositories'[g] # NoRow /\ repositories'[g].sync_status = "stub") =>
            \/ (repositories[g] # NoRow /\ repositories[g].sync_status = "stub")
            \/ (repositories[g] = NoRow /\ lastOp'.op = "scout" /\ g \in lastOp'.ids)]_vars

\* The scout met a repository whose row is complete.
C5_Witness ==
  /\ lastOp.op = "scout"
  /\ \E g \in lastOp.ids :
       repositories[g] # NoRow /\ repositories[g].sync_status = "complete"

Flags == {"contributors_fetched", "commit_activity_fetched", "recent_commits_fetched"}

\* C6: a "missing" job processes only repositories whose flag is false or
\* absent, and every repository whose fetch succeeded has its flag true
\* afterwards.
C6_FetchedFlagMarksSuccess ==
  [][\A flag \in Flags :
       lastOp'.op = flag =>
         /\ lastOp'.ids \subseteq Missing(flag)
         /\ \A g \in lastOp'.fetched :
              repository_stats'[g] # NoRow /\ repository_stats'[g][flag]]_vars

\* ------------------------------------------------------------- SpecHealth
\* One repository as GitHub reports it, and the health_score the sync paths
\* store for it.

DaysSince == {NULL, 3, 30, 60, 200, 400}   \* whole days since pushedAt; NULL without pushedAt
ReleaseAges == {NULL, 10, 200}             \* whole days since the latest release; NULL without one

Upstreams ==
  [daysSinceCommit : DaysSince, releaseAge : ReleaseAges,
   hasIssuesEnabled : BOOLEAN, issuesCount : {0, 5}, hasDiscussionsEnabled : BOOLEAN,
   isArchived : BOOLEAN, isDisabled : BOOLEAN]

Min(a, b) == IF a < b THEN a ELSE b
Max(a, b) == IF a > b THEN a ELSE b

\* githubService.calculateSimpleHealthScore(repo, daysSinceCommit)
calculateSimpleHealthScore(repo, daysSinceCommit) ==
  LET base == 50
      commit == IF daysSinceCommit = NULL THEN 0
                ELSE IF daysSinceCommit <= 7 THEN 30
                ELSE IF daysSinceCommit <= 30 THEN 20
                ELSE IF daysSinceCommit <= 90 THEN 10
                ELSE IF daysSinceCommit > 365 THEN 0 - 20
                ELSE 0
      release == IF repo.releaseAge # NULL /\ repo.releaseAge <= 90 THEN 10 ELSE 0
      issues == IF repo.hasIssuesEnabled /\ repo.issuesCount > 0 THEN 5 ELSE 0
      discussions == IF repo.hasDiscussionsEnabled THEN 5 ELSE 0
      score == IF repo.isArchived \/ repo.isDisabled THEN 0
               ELSE base + commit + release + issues + discussions
  IN Max(0, Min(100, score))

\* newService.calculateSimpleHealthScore(repo, daysSinceCommit)
archiveHealthScore(repo, daysSinceCommit) ==
  IF daysSinceCommit # NULL /\ daysSinceCommit < 30 THEN 100 ELSE 50

InitHealth ==
  /\ upstream \in Upstreams
  /\ ~upstream.isArchived /\ ~upstream.isDisabled
  /\ health_score = NULL
  /\ lastOp = NoOp
  /\ NoDb /\ NoPage /\ NoHttp /\ NoFilter /\ NoDev /\ NoLater

HealthStep(op) ==
  /\ lastOp' = Op(op, "", {}, TRUE, {})
  /\ UNCHANGED <<dbVars, pageVars, httpVars, filterVars, developers, laterVars>>

\* The repository changes on GitHub: a push, a release, a setting, archival.
GitHubChanges(field, value) ==
  /\ upstream[field] # value
  /\ upstream' = [upstream EXCEPT ![field] = value]
  /\ UNCHANGED health_score
  /\ HealthStep("github")

\* githubService.calculateAndSaveStats: health_score = EXCLUDED.health_score
githubSaveStats ==
  /\ health_score' = calculateSimpleHealthScore(upstream, upstream.daysSinceCommit)
  /\ UNCHANGED upstream
  /\ HealthStep("stats_rest")

\* newService.calculateAndSaveStats: health_score = EXCLUDED.health_score
archiveSaveStats ==
  /\ health_score' = archiveHealthScore(upstream, upstream.daysSinceCommit)
  /\ UNCHANGED upstream
  /\ HealthStep("stats_archive")

\* workerService.fetchAndEnrichRepo: the statistics row of a stub is inserted
\* without a health_score, which takes the column's DEFAULT 0.
hydrateSaveStats ==
  /\ health_score = NULL
  /\ health_score' = 0
  /\ UNCHANGED upstream
  /\ HealthStep("stats_hydrate")

NextHealth ==
  \/ \E field \in {"daysSinceCommit"}, value \in DaysSince : GitHubChanges(field, value)
  \/ \E field \in {"releaseAge"}, value \in ReleaseAges : GitHubChanges(field, value)
  \/ \E field \in {"issuesCount"}, value \in {0, 5} : GitHubChanges(field, value)
  \/ \E field \in {"hasIssuesEnabled", "hasDiscussionsEnabled", "isArchived", "isDisabled"},
        value \in BOOLEAN : GitHubChanges(field, value)
  \/ githubSaveStats
  \/ archiveSaveStats
  \/ hydrateSaveStats

SpecHealth == InitHealth /\ [][NextHealth]_vars

\* C2: every health_score a REST/GraphQL sync or a GH-Archive sync writes is
\* in [0,100], and is 0 when the repository is archived or disabled.
C2_HealthScoreInRangeAndZeroWhenArchived ==
  [][lastOp'.op \in {"stats_rest", "stats_archive"} =>
       /\ health_score' \in 0..100
       /\ (upstream.isArchived \/ upstream.isDisabled) => health_score' = 0]_vars

\* --------------------------------------------------------------- SpecPage
\* A client pages through GET /api/developers or GET /api/repos/top over an
\* unchanging table, echoing each nextCursor into the next request.  Text is
\* a sequence of characters.

MaxRows == 3       \* rows matching the filters
MaxLimit == 2      \* largest limit parameter

DefaultLimit == 30         \* parseInt(limit) || 30
DevelopersMaxLimit == 100  \* Math.min(..., 100)
ReposTopMaxLimit == 1000   \* Math.min(..., 1000)

FollowerCounts == {0, 5, 12}   \* developers.followers_count
TopStarCounts == {2, 5, 12}    \* stars_count of repositories tagged 'top'

\* Tables of at most MaxRows rows; key is the sort column, id the SERIAL key.
Tables(keys) ==
  UNION {{{[id |-> i, key |-> f[i]] : i \in S} : f \in [S -> keys]} : S \in SUBSET (1..MaxRows)}

Digits == <<"0", "1", "2", "3", "4", "5", "6", "7", "8", "9">>
IsDigit(c) == \E d \in 1..10 : Digits[d] = c
DigitValue(c) == (CHOOSE d \in 1..10 : Digits[d] = c) - 1

\* String(n) / the decimal rendering of a number in JSON.stringify
RECURSIVE NumberToText(_)
NumberToText(n) ==
  IF n < 10 THEN <<Digits[n + 1]>>
  ELSE NumberToText(n \div 10) \o <<Digits[(n % 10) + 1]>>

\* parseInt(text): the leading decimal digits; NaN (here NULL) without one.
RECURSIVE ParseDigits(_, _)
ParseDigits(text, acc) ==
  IF text = <<>> \/ ~IsDigit(Head(text)) THEN acc
  ELSE ParseDigits(Tail(text), acc * 10 + DigitValue(Head(text)))

parseInt(text) ==
  IF text = <<>> \/ ~IsDigit(Head(text)) THEN NULL ELSE ParseDigits(text, 0)

\* JSON.stringify({ f: followers_count, i: id })
CursorPayload(f, i) ==
  <<"{", "\"", "f", "\"", ":">> \o NumberToText(f)
     \o <<",", "\"", "i", "\"", ":">> \o NumberToText(i) \o <<"}">>

AllDigits(text) == \A k \in 1..Len(text) : IsDigit(text[k])

NoCursorValues == [f |-> NULL, i |-> NULL]

\* JSON.parse(text), then decoded.f and decoded.i; a text that does not
\* parse throws, the handler ignores it and both stay null.
DecodePayload(text) ==
  LET commas == {k \in 1..Len(text) : text[k] = ","}
      c == CHOOSE k \in commas : \A m \in commas : k <= m
      f == SubSeq(text, 6, c - 1)
      i == SubSeq(text, c + 5, Len(text) - 1)
  IN IF /\ commas # {}
        /\ Len(text) >= 13
        /\ SubSeq(text, 1, 5) = <<"{", "\"", "f", "\"", ":">>
        /\ SubSeq(text, c + 1, c + 4) = <<"\"", "i", "\"", ":">>
        /\ text[Len(text)] = "}"
        /\ f # <<>> /\ AllDigits(f) /\ i # <<>> /\ AllDigits(i)
     THEN [f |-> parseInt(f), i |-> parseInt(i)]
     ELSE NoCursorValues

\* The character codes of the characters a cursor payload is written with.
CharCode(c) ==
  IF IsDigit(c) THEN 48 + DigitValue(c)
  ELSE CASE c = "{" -> 123 [] c = "}" -> 125 [] c = "\"" -> 34
         [] c = "f" -> 102 [] c = "i" -> 105 [] c = ":" -> 58 [] c = "," -> 44

\* Buffer.toString('ascii'), on those codes; "?" stands for any other character.
CodeChar(n) ==
  IF n \in 48..57 THEN Digits[n - 47]
  ELSE CASE n = 123 -> "{" [] n = 125 -> "}" [] n = 34 -> "\""
         [] n = 102 -> "f" [] n = 105 -> "i" [] n = 58 -> ":" [] n = 44 -> ","
         [] OTHER -> "?"

Base64Alphabet ==
  <<"A", "B", "C", "D", "E", "F", "G", "H", "I", "J", "K", "L", "M",
    "N", "O", "P", "Q", "R", "S", "T", "U", "V", "W", "X", "Y", "Z",
    "a", "b", "c", "d", "e", "f", "g", "h", "i", "j", "k", "l", "m",
    "n", "o", "p", "q", "r", "s", "t", "u", "v", "w", "x", "y", "z",
    "0", "1", "2", "3", "4", "5", "6", "7", "8", "9", "+", "/">>

Sextet(c) == (CHOOSE k \in 1..64 : Base64Alphabet[k] = c) - 1

\* Buffer.from(text).toString('base64')
RECURSIVE Base64Bytes(_)
Base64Bytes(b) ==
  IF b = <<>> THEN <<>>
  ELSE IF Len(b) = 1
  THEN <<Base64Alphabet[(b[1] \div 4) + 1], Base64Alphabet[(b[1] % 4) * 16 + 1], "=", "=">>
  ELSE IF Len(b) = 2
  THEN <<Base64Alphabet[(b[1] \div 4) + 1],
         Base64Alphabet[(b[1] % 4) * 16 + (b[2] \div 16) + 1],
         Base64Alphabet[(b[2] % 16) * 4 + 1], "=">>
  ELSE <<Base64Alphabet[(b[1] \div 4) + 1],
         Base64Alphabet[(b[1] % 4) * 16 + (b[2] \div 16) + 1],
         Base64Alphabet[(b[2] % 16) * 4 + (b[3] \div 64) + 1],
         Base64Alphabet[(b[3] % 64) + 1]>> \o Base64Bytes(SubSeq(b, 4, Len(b)))

Base64Encode(text) == Base64Bytes([k \in 1..Len(text) |-> CharCode(text[k])])

\* Buffer.from(text, 'base64'): the bytes of each group of four characters.
RECURSIVE Base64Decode(_)
Base64Decode(t) ==
  IF Len(t) < 4 THEN <<>>
  ELSE LET b1 == Sextet(t[1]) * 4 + (Sextet(t[2]) \div 16)
       IN IF t[3] = "=" THEN <<b1>>
          ELSE LET b2 == (Sextet(t[2]) % 16) * 16 + (Sextet(t[3]) \div 4)
               IN IF t[4] = "=" THEN <<b1, b2>>
                  ELSE <<b1, b2, (Sextet(t[3]) % 4) * 64 + Sextet(t[4])>>
                         \o Base64Decode(SubSeq(t, 5, Len(t)))

AsciiText(bytes) == [k \in 1..Len(bytes) |-> CodeChar(bytes[k] % 128)]

\* Mutant: the cursor is tested for truthiness, and 0 is falsy.
HasCursorTruthy(lastKey, lastId) == lastKey \notin {NULL, 0} /\ lastId \notin {NULL, 0}

\* if (lastFollowers !== null && lastId !== null)
HasCursor(lastKey, lastId) == lastKey # NULL /\ lastId # NULL

\* (key, id) < ($1, $2), the row-value comparison of the keyset predicate
RowBefore(row, lastKey, lastId) ==
  row.key < lastKey \/ (row.key = lastKey /\ row.id < lastId)

\* ORDER BY key DESC, id DESC
RECURSIVE OrderDesc(_)
OrderDesc(rows) ==
  IF rows = {} THEN <<>>
  ELSE LET top == CHOOSE r \in rows :
                    \A q \in rows \ {r} : RowBefore(q, r.key, r.id)
       IN <<top>> \o OrderDesc(rows \ {top})

\* LIMIT n
Limit(rows, n) == SubSeq(rows, 1, Min(n, Len(rows)))

\* SELECT ... WHERE <filters> [AND (key, id) < ($1, $2)] ORDER BY key DESC, id DESC LIMIT n
SelectPage(lastKey, lastId, n) ==
  Limit(OrderDesc(IF HasCursor(lastKey, lastId)
                  THEN {r \in table : RowBefore(r, lastKey, lastId)}
                  ELSE table), n)

InitPage ==
  /\ endpoint \in {"developers", "repos_top"}
  /\ table \in Tables(IF endpoint = "developers" THEN FollowerCounts ELSE TopStarCounts)
  /\ limit \in 1..MaxLimit
  /\ cursor = <<>>
  /\ seen = <<>>
  /\ paging = "first"
  /\ lastOp = NoOp
  /\ NoDb /\ NoHealth /\ NoHttp /\ NoFilter /\ NoDev /\ NoLater

Respond(rows, nextCursor, more) ==
  /\ seen' = seen \o rows
  /\ cursor' = nextCursor
  /\ paging' = IF more THEN "more" ELSE "done"
  /\ lastOp' = Op(endpoint, "", {}, TRUE, {})
  /\ UNCHANGED <<table, endpoint, limit, dbVars, healthVars, httpVars, filterVars, developers, laterVars>>

\* GET /api/developers?limit=..[&cursor=..]
GetDevelopers ==
  /\ endpoint = "developers" /\ paging # "done"
  /\ LET limitNum == Min(JsOr(parseInt(NumberToText(limit)), DefaultLimit), DevelopersMaxLimit)
         decoded == IF cursor # <<>>
                    THEN DecodePayload(AsciiText(Base64Decode(cursor)))
                    ELSE NoCursorValues
         rows == SelectPage(decoded.f, decoded.i, limitNum)
         last == rows[Len(rows)]
     IN IF Len(rows) = limitNum
        THEN Respond(rows, Base64Encode(CursorPayload(last.key, last.id)), TRUE)
        ELSE Respond(rows, <<>>, FALSE)

\* req.query.x ? parseInt(req.query.x) : null
QueryNumber(text) == IF text = <<>> THEN NULL ELSE parseInt(text)

\* GET /api/repos/top?limit=..[&lastStars=..&lastId=..]: the client sends the
\* two numbers of nextCursor back as query parameters.
GetReposTop ==
  /\ endpoint = "repos_top" /\ paging # "done"
  /\ LET limitNum == Min(JsOr(parseInt(NumberToText(limit)), DefaultLimit), ReposTopMaxLimit)
         lastStars == QueryNumber(IF paging = "first" THEN <<>> ELSE cursor.lastStars)
         lastId == QueryNumber(IF paging = "first" THEN <<>> ELSE cursor.lastId)
         rows == SelectPage(lastStars, lastId, limitNum)
         last == rows[Len(rows)]
     IN IF Len(rows) = limitNum
        THEN Respond(rows, [lastStars |-> NumberToText(last.key),
                            lastId |-> NumberToText(last.id)], TRUE)
        ELSE Respond(rows, <<>>, FALSE)

NextPage == GetDevelopers \/ GetReposTop

SpecPage == InitPage /\ [][NextPage]_vars

Rows(s) == {s[k] : k \in 1..Len(s)}

\* C4: with an unchanging table, the rows a client has collected by
\* following nextCursor are in strictly descending (key, id) order, so none
\* repeats, and once nextCursor is null they are all the matching rows.
C4_KeysetPagesNoDuplicatesNoGaps ==
  /\ \A j \in 1..Len(seen) : \A k \in 1..Len(seen) :
       j < k => RowBefore(seen[k], seen[j].key, seen[j].id)
  /\ Rows(seen) \subseteq table
  /\ paging = "done" => Rows(seen) = table

\* Three pages of one row each have been served, the second and third from
\* cursors made of a two-digit key and of key 0, and paging has ended.
C4_Witness ==
  /\ paging = "done" /\ endpoint = "developers"
  /\ Len(seen) = 3 /\ Len(seen) > 2 * limit
  /\ seen[1].key >= 10 /\ seen[2].key = 0 /\ seen[3].key = 0

\* ---------------------------------------------------------------- SpecDev
\* Table developers under developerWorkerService.saveDeveloperToDB.

MaxDevs == 1       \* number of distinct developers (github_id 1..MaxDevs)

DevIds == 1..MaxDevs
Missions == {"hall_of_fame", "trending_expert", "badge_holder", "rising_star", "manual_fetch"}

\* The fields of the analysed developer that the four status flags read.
DeveloperData ==
  [github_id : DevIds, missionContext : Missions, isOrganization : BOOLEAN,
   velocityScore : {5, 11}, yearsActive : {1, 3}, badges : {0, 1}]

\* const isRisingStar = !data.isOrganization && (data.velocityScore > 10 && yearsActive < 2)
isRisingStar(data) == ~data.isOrganization /\ (data.velocityScore > 10 /\ data.yearsActive < 2)

\* const isBadgeHolder = data.badges && data.badges.length > 0
isBadgeHolder(data) == data.badges > 0

\* Mutant: the flag is overwritten like the recomputed ones (EXCLUDED.<flag>).
StickyFlagOverwritten(old, mission, flag) == mission = flag

\* CASE WHEN $24 = '<flag>' THEN TRUE ELSE developers.<flag> END
StickyFlag(old, mission, flag) == IF mission = flag THEN TRUE ELSE old

\* INSERT INTO developers ... ON CONFLICT (github_id) DO UPDATE SET ...
UpsertDeveloper(row, data) ==
  IF row = NoRow
  THEN [is_hall_of_fame    |-> data.missionContext = "hall_of_fame",
        is_trending_expert |-> data.missionContext = "trending_expert",
        is_rising_star     |-> isRisingStar(data),
        is_badge_holder    |-> isBadgeHolder(data)]
  ELSE [is_hall_of_fame    |-> StickyFlag(row.is_hall_of_fame, data.missionContext, "hall_of_fame"),
        is_trending_expert |-> StickyFlag(row.is_trending_expert, data.missionContext, "trending_expert"),
        is_rising_star     |-> isRisingStar(data),
        is_badge_holder    |-> isBadgeHolder(data)]

InitDev ==
  /\ developers = [d \in DevIds |-> NoRow]
  /\ lastOp = NoOp
  /\ NoDb /\ NoHealth /\ NoPage /\ NoHttp /\ NoFilter /\ NoLater

\* developerWorkerService.saveDeveloperToDB(data): one transaction; when a
\* statement raises it is rolled back and the error is only logged.
saveDeveloperToDB(data, raises) ==
  /\ developers' = IF raises THEN developers
                   ELSE [developers EXCEPT ![data.github_id] = UpsertDeveloper(@, data)]
  /\ lastOp' = [Op("save", data.missionContext, {data.github_id}, ~raises, {})
                  EXCEPT !.repos = <<data>>]
  /\ UNCHANGED <<dbVars, healthVars, pageVars, httpVars, filterVars, laterVars>>

NextDev == \E data \in DeveloperData, raises \in BOOLEAN : saveDeveloperToDB(data, raises)

SpecDev == InitDev /\ [][NextDev]_vars

Flag(row, flag) == row # NoRow /\ row[flag]

\* C7: a save that commits sets is_hall_of_fame and is_trending_expert to
\* their old value OR'd with "the save came from the matching mission" and
\* sets is_rising_star and is_badge_holder to the values it computed; a save
\* that is rolled back, and a save of another developer, change no flag.
\* So the first two never go back to false.
C7_StickyAndRecomputedFlags ==
  [][\A d \in DevIds :
       IF lastOp'.ok /\ d \in lastOp'.ids
       THEN /\ developers'[d] # NoRow
            /\ \A flag \in {"hall_of_fame", "trending_expert"} :
                 developers'[d]["is_" \o flag] <=>
                   (Flag(developers[d], "is_" \o flag) \/ lastOp'.category = flag)
            /\ developers'[d].is_rising_star <=> isRisingStar(lastOp'.repos[1])
            /\ developers'[d].is_badge_holder <=> isBadgeHolder(lastOp'.repos[1])
       ELSE developers'[d] = developers[d]]_vars

\* A developer in the hall of fame and among the trending experts was saved
\* again by another mission, which found neither a rising star nor a badge.
C7_Witness ==
  /\ lastOp.op = "save" /\ lastOp.ok
  /\ lastOp.category \notin {"hall_of_fame", "trending_expert"}
  /\ \E d \in lastOp.ids :
       /\ developers[d].is_hall_of_fame /\ developers[d].is_trending_expert
       /\ ~developers[d].is_rising_star /\ ~developers[d].is_badge_holder

\* ------------------------------------------------------------- SpecFilter
\* GET /api/repos/filter over an unchanging catalogue.

MaxCatalog == 2    \* joined rows in the catalogue

FilterLimit == 100 \* LIMIT 100

NoParam == ""      \* the query parameter is not sent

\* repositories LEFT JOIN repository_stats: stars_growth_7d is a nullable
\* column, and NULL for a repository without a statistics row.
CatalogColumns ==
  [stars_count : {5, 50}, forks_count : {1, 2},
   stars_growth_7d : {NULL, 1, 9}, categories : {<<"top">>, <<"trending_weekly">>}]

CatalogRow(i, columns) ==
  [id |-> i, stars_count |-> columns.stars_count, forks_count |-> columns.forks_count,
   stars_growth_7d |-> columns.stars_growth_7d, categories |-> columns.categories]

Catalogs == {{CatalogRow(i, f[i]) : i \in 1..MaxCatalog} : f \in [1..MaxCatalog -> CatalogColumns]}

Sources == {NoParam, "trendings", "trending_weekly"}
SortBys == {NoParam, "stars", "forks", "name"}

\* let category = 'top'; if (source) { ... }
FilterCategory(source) ==
  IF source = "growings" THEN "growing"
  ELSE IF source = "trendings" THEN "trending"
  ELSE IF source \in {"trending_weekly", "trending_monthly", "trending_quarterly",
                      "stub", "complete"} THEN source
  ELSE "top"

\* Mutant: the source does not choose the order; only sort_by replaces
\* `r.stars_count DESC`.
OrderByClauseIgnoringSource(source, sort_by) ==
  IF sort_by = "updated" THEN "updated_at"
  ELSE IF sort_by = "forks" THEN "forks_count"
  ELSE "stars_count"

\* let orderByClause = `r.stars_count DESC`; the source may replace it, and
\* then sort_by may replace it again.
OrderByClause(source, sort_by) ==
  IF sort_by = "updated" THEN "updated_at"
  ELSE IF sort_by = "stars" THEN "stars_count"
  ELSE IF sort_by = "forks" THEN "forks_count"
  ELSE IF source = "trending_weekly" THEN "stars_growth_7d"
  ELSE IF source = "trending_monthly" THEN "stars_growth_30d"
  ELSE IF source = "trending_quarterly" THEN "stars_growth_90d"
  ELSE "stars_count"

\* The clauses written with NULLS LAST.
NullsLast(column) == column \in {"stars_growth_7d", "stars_growth_30d", "stars_growth_90d"}

\* Value a may stand before value b under ORDER BY ... DESC [NULLS LAST].
NotAfter(a, b, nullsLast) ==
  IF a = NULL /\ b = NULL THEN TRUE
  ELSE IF a = NULL THEN ~nullsLast
  ELSE IF b = NULL THEN nullsLast
  ELSE a >= b

\* rows is in the order of ORDER BY <column> DESC [NULLS LAST]
OrderedBy(rows, column) ==
  \A j \in 1..Len(rows) : \A k \in 1..Len(rows) :
    j < k => NotAfter(rows[j][column], rows[k][column], NullsLast(column))

\* WHERE r.stars_count >= $4 [AND '<category>' = ANY(r.categories)], with
\* min_stars not sent ($4 = 0)
Matching(source) ==
  {r \in catalog : /\ r.stars_count # NULL /\ r.stars_count >= 0
                   /\ source # NoParam => EqAny(FilterCategory(source), r.categories)}

InitFilter ==
  /\ catalog \in Catalogs
  /\ request = NoRow
  /\ result = <<>>
  /\ lastOp = NoOp
  /\ NoDb /\ NoHealth /\ NoPage /\ NoHttp /\ NoDev /\ NoLater

\* GET /api/repos/filter?source=..&sort_by=..: rows is the order in which
\* the database returns the matching rows, any order the ORDER BY allows.
GetReposFilter(source, sort_by, rows) ==
  /\ rows \in Orders(Matching(source))
  /\ OrderedBy(rows, OrderByClause(source, sort_by))
  /\ request' = [source |-> source, sort_by |-> sort_by]
  /\ result' = Limit(rows, FilterLimit)
  /\ lastOp' = Op("filter", FilterCategory(source), {}, TRUE, {})
  /\ UNCHANGED <<catalog, dbVars, healthVars, pageVars, httpVars, developers, laterVars>>

NextFilter ==
  \E source \in Sources, sort_by \in SortBys :
    \E rows \in Orders(Matching(source)) : GetReposFilter(source, sort_by, rows)

SpecFilter == InitFilter /\ [][NextFilter]_vars

\* C10 (as the code has it): a response to source=trending_weekly whose
\* request carries no sort_by of updated, stars or forks is ordered by
\* stars_growth_7d descending with NULLs last.
C10_WeeklyOrderedByGrowthUnlessSortBy ==
  (request # NoRow /\ request.source = "trending_weekly"
     /\ request.sort_by \notin {"updated", "stars", "forks"}) =>
    \A j \in 1..Len(result) : \A k \in 1..Len(result) :
      j < k => /\ result[j].stars_growth_7d = NULL => result[k].stars_growth_7d = NULL
               /\ result[k].stars_growth_7d # NULL =>
                    result[j].stars_growth_7d >= result[k].stars_growth_7d

\* C10 as the specification states it: every response to
\* source=trending_weekly is ordered by stars_growth_7d descending with
\* NULLs last.
C10_WeeklyAlwaysOrderedByGrowth ==
  (request # NoRow /\ request.source = "trending_weekly") =>
    \A j \in 1..Len(result) : \A k \in 1..Len(result) :
      j < k => /\ result[j].stars_growth_7d = NULL => result[k].stars_growth_7d = NULL
               /\ result[k].stars_growth_7d # NULL =>
                    result[j].stars_growth_7d >= result[k].stars_growth_7d

\* A weekly response without sort_by lists a repository of larger growth
\* and fewer stars before another, or before one without growth.
C10_Witness ==
  /\ request # NoRow /\ request.source = "trending_weekly" /\ request.sort_by = NoParam
  /\ Len(result) >= 2
  /\ result[1].stars_growth_7d # NULL
  /\ result[2].stars_growth_7d = NULL \/ result[1].stars_growth_7d > result[2].stars_growth_7d
  /\ result[1].stars_count < result[2].stars_count

\* --------------------------------------------------------------- SpecHttp
\* The routes of index.ts that start a sync or worker job: one request at a
\* time, from its arrival to its response and the end of its job.

MaxRequests == 2   \* requests a behaviour serves

Accepted == 202            \* res.status(202)
Ok == 200                  \* res.json(...) without a status, res.status(200)
BadRequest == 400          \* res.status(400)
InternalServerError == 500 \* res.status(500)

\* The job is started and not awaited; the response is res.status(202).
Dispatched202 ==
  {"/api/sync/gharchive/weekly", "/api/sync/gharchive/monthly",
   "/api/sync/gharchive/quarterly", "/api/sync/quick", "/api/sync/comprehensive",
   "/api/workers/scout", "/api/workers/run-all", "/api/workers/runByOrder"}

\* The job is started and not awaited; the response is res.json(...).
Dispatched200 ==
  {"/api/workers/readme", "/api/workers/activity", "/api/workers/contributors",
   "/api/workers/commits"}

\* The handler awaits a job that catches every error of its own.
AwaitedSwallowing == {"/fetch-growing", "/fetch-trending"}

\* The handler awaits a job that catches the errors of its items only.
AwaitedWorkers ==
  {"/api/workers/update-contributors", "/api/workers/update-commit-activity",
   "/api/workers/update-recent-activity"}

\* The handler awaits developerWorkerService.fetchSpecificDeveloper.
AwaitedDeveloper == {"/api/developers/fetch"}

Awaited == AwaitedSwallowing \cup AwaitedWorkers \cup AwaitedDeveloper
Routes == Dispatched202 \cup Dispatched200 \cup Awaited

\* The sync trigger endpoints: POST /api/sync/*, /api/workers/*, /fetch-growing, /fetch-trending.
SyncTriggers == Routes \ AwaitedDeveloper

\* How a job may end: "ok"; "swallowed", its database or adapter work failed
\* and the job caught the error; "rejected", the error left the job.
JobEndings(r) ==
  IF r \in AwaitedSwallowing THEN {"ok", "swallowed"} ELSE {"ok", "swallowed", "rejected"}

Ended == {"ok", "swallowed", "rejected"}

\* The status of the try block's response.
SuccessStatus(r) ==
  IF r \in Dispatched200 \cup AwaitedDeveloper THEN Ok ELSE Accepted

InitHttp ==
  /\ route = "" /\ job = "none" /\ response = NULL /\ answered = 0
  /\ lastOp = NoOp
  /\ NoDb /\ NoHealth /\ NoPage /\ NoFilter /\ NoDev /\ NoLater

HttpStep == UNCHANGED <<lastOp, dbVars, healthVars, pageVars, filterVars, developers, laterVars>>

\* A request arrives.
Receive(r) ==
  /\ route = "" /\ answered < MaxRequests
  /\ route' = r /\ job' = "none" /\ response' = NULL
  /\ UNCHANGED answered
  /\ HttpStep

\* job().catch(...); res.status(..).json(..): the handler starts the job and
\* responds in the same turn.
DispatchAndRespond ==
  /\ route \in Dispatched202 \cup Dispatched200 /\ job = "none"
  /\ job' = "running"
  /\ response' = SuccessStatus(route)
  /\ UNCHANGED <<route, answered>>
  /\ HttpStep

\* if (!username) return res.status(400)
RejectWithoutUsername ==
  /\ route \in AwaitedDeveloper /\ job = "none" /\ response = NULL
  /\ response' = BadRequest
  /\ UNCHANGED <<route, job, answered>>
  /\ HttpStep

\* await job(): the handler starts the job and waits for it.
DispatchAndAwait ==
  /\ route \in Awaited /\ job = "none" /\ response = NULL
  /\ job' = "running"
  /\ UNCHANGED <<route, response, answered>>
  /\ HttpStep

\* The job ends.
JobEnds(ending) ==
  /\ job = "running" /\ ending \in JobEndings(route)
  /\ job' = ending
  /\ UNCHANGED <<route, response, answered>>
  /\ HttpStep

\* The awaited promise settles: the try block responds, or the catch block.
RespondAfterAwait ==
  /\ route \in Awaited /\ job \in Ended /\ response = NULL
  /\ response' = IF job = "rejected" THEN InternalServerError ELSE SuccessStatus(route)
  /\ UNCHANGED <<route, job, answered>>
  /\ HttpStep

\* The request is over: its response is sent and its job, if any, has ended.
Done ==
  /\ route # "" /\ response # NULL /\ job \in Ended \cup {"none"}
  /\ route' = "" /\ job' = "none" /\ response' = NULL
  /\ answered' = answered + 1
  /\ HttpStep

NextHttp ==
  \/ \E r \in Routes : Receive(r)
  \/ DispatchAndRespond
  \/ RejectWithoutUsername
  \/ DispatchAndAwait
  \/ \E ending \in Ended : JobEnds(ending)
  \/ RespondAfterAwait
  \/ Done

SpecHttp == InitHttp /\ [][NextHttp]_vars

\* C8: every sync trigger endpoint responds 202, and responds while its job
\* is still running.
C8_TriggersRespond202BeforeJobEnds ==
  [][(route \in SyncTriggers /\ response = NULL /\ response' # NULL) =>
       (response' = Accepted /\ job' = "running")]_vars

\* C9: a route whose database or adapter work has failed by the time it
\* responds answers 500.
C9_FailedWorkAnswers500 ==
  [][(response = NULL /\ response' # NULL /\ job' \in {"swallowed", "rejected"}) =>
       response' = InternalServerError]_vars

\* ----------------------------------------------------------- SpecActivity
\* One run of fetchAndSaveCommitActivity for one repository: the requests to
\* GET /repos/{full_name}/stats/commit_activity and the save that follows.

MaxWeeks == 2      \* distinct week timestamps GitHub may report

maxRetries == 3    \* const maxRetries = 3

NetworkError == 0  \* fetch() rejected: there is no response
Statuses == {200, 202, 404, NetworkError}

Weeks == 1..MaxWeeks

\* A parsed JSON body: an array with its items, or an object (as the 202
\* answer's {}).
JsonArray(items) == [isArray |-> TRUE, items |-> items]
NotArray == [isArray |-> FALSE, items |-> <<>>]

\* The arrays a 200 answer may carry.
WeekArrays == SeqUpTo(Weeks, MaxWeeks)

\* Response.ok: the status is in the range 200-299.
ResponseOk(status) == status \in 200..299

\* response.json() of an answer: the week array when the statistics are
\* ready, an object otherwise.
ResponseJson(status, weeks) == IF status = 200 THEN JsonArray(weeks) ELSE NotArray

\* The two copies of the function: workerService.ts, and
\* fetchings/commitActivityWorkerService.ts.
ActivityServices == {"worker", "fetchings"}

\* The repository's repository_stats row, as far as this function goes.
ActivityStats == {NoRow} \cup [commit_activity_fetched : BOOLEAN]

InitActivity ==
  /\ activity \in
       [service : ActivityServices,
        github : [1..maxRetries -> Statuses],  \* GitHub's answer to the k-th request
        weeks : WeekArrays,                    \* the array GitHub has for the repository
        stats : ActivityStats,
        rows : SUBSET Weeks,                   \* repository_commit_activity of the repository
        before : {NoRow}, attempt : {0}, requests : {0}, sleeps : {0},
        response : {NULL}, pc : {"loop"}, outcome : {"running"}]
  /\ NoBase /\ NoActivityOthers

ActivityFrame == UNCHANGED <<baseVars, activityOthers>>

\* One turn of `while (attempt < maxRetries)`: the request and what the loop
\* body makes of the answer.
ActivityRequest ==
  /\ activity # NoRow /\ activity.pc = "loop"
  /\ LET status == activity.github[activity.requests + 1]
         asked == [activity EXCEPT !.requests = @ + 1,
                                   !.before = [stats |-> activity.stats, rows |-> activity.rows]]
     IN activity' =
          IF status = NetworkError
          THEN [asked EXCEPT !.pc = "done", !.outcome = "threw"]
          ELSE IF ResponseOk(status)
          THEN [asked EXCEPT !.response = status, !.pc = "after"]
          ELSE IF status = 202
          THEN [asked EXCEPT !.response = status, !.sleeps = @ + 1, !.attempt = @ + 1,
                             !.pc = IF activity.attempt + 1 < maxRetries THEN "loop" ELSE "after"]
          ELSE [asked EXCEPT !.response = status, !.pc = "done", !.outcome = "threw"]
  /\ ActivityFrame

\* INSERT INTO repository_commit_activity ... for each week of the array:
\* UNIQUE(repo_github_id, week_timestamp) raises on a week listed twice.
InsertWeeksRaises(weeks) ==
  \E j, k \in 1..Len(weeks) : j # k /\ weeks[j] = weeks[k]

\* The flag statement of the save transaction: workerService UPDATEs the
\* row, the fetchings copy INSERTs it ON CONFLICT DO UPDATE.
MarkActivityFetched(service, stats) ==
  IF stats = NoRow /\ service = "worker" THEN NoRow
  ELSE [commit_activity_fetched |-> TRUE]

\* The rest of the function, after the loop: parse the body and save it.
ActivitySave ==
  /\ activity # NoRow /\ activity.pc = "after"
  /\ LET json == ResponseJson(activity.response, activity.weeks)
         returns == [activity EXCEPT !.pc = "done", !.outcome = "returned"]
     IN activity' =
          IF activity.response = NULL \/ ~ResponseOk(activity.response) THEN returns
          ELSE IF ~json.isArray THEN returns
          ELSE IF activity.service = "worker" /\ Len(json.items) = 0 THEN returns
          ELSE IF InsertWeeksRaises(json.items)
          THEN [activity EXCEPT !.pc = "done", !.outcome = "threw"]
          ELSE [returns EXCEPT !.stats = MarkActivityFetched(activity.service, @),
                               !.rows = {json.items[k] : k \in 1..Len(json.items)}]
  /\ ActivityFrame

NextActivity == ActivityRequest \/ ActivitySave

SpecActivity == InitActivity /\ [][NextActivity]_vars

\* C11: when GitHub answers 202 to every request, the fetch makes maxRetries
\* requests, sleeping between them, and then returns without raising and
\* without a change to the repository's commit-activity rows or its flag.
C11_RetriesOn202ThenGivesUp ==
  (activity # NoRow /\ activity.pc = "done"
     /\ \A k \in 1..maxRetries : activity.github[k] = 202) =>
    /\ activity.requests = maxRetries
    /\ activity.sleeps >= maxRetries - 1
    /\ activity.outcome = "returned"
    /\ activity.stats = activity.before.stats
    /\ activity.rows = activity.before.rows

\* ------------------------------------------------------------ SpecContrib
\* One run of fetchAndSaveContributors for one repository: the REST request,
\* the GraphQL scan of the commit history, the Search-API enrichment, the save.

MaxLogins == 2     \* distinct GitHub users among the repository's authors

maxPages == 5      \* const maxPages = 5

Logins == 1..MaxLogins   \* user.databaseId, standing for the login too
NoUser == 0              \* node.author.user is null

\* workerService.ts, and the ContributorsWorkerService copy.
ContribServices == {"worker", "contributors"}

\* What GET /repos/{full_name}/contributors answers: its status, whether a
\* 403 says "list is too large", and the contributors of a 200.
RestAnswers ==
  [status : {200}, tooLarge : {FALSE}, body : SUBSET Logins]
    \cup [status : {204, 500, NetworkError}, tooLarge : {FALSE}, body : {{}}]
    \cup [status : {403}, tooLarge : BOOLEAN, body : {{}}]

\* What one request of the history query comes to: a page with a commit of
\* one author, no history at all, or an exception ("missing": its message
\* holds 404 or MISSING).
PageAnswers ==
  [kind : {"page"}, author : Logins \cup {NoUser}, hasNextPage : BOOLEAN]
    \cup [kind : {"nohistory", "error", "missing"}, author : {NoUser}, hasNextPage : {FALSE}]

ContribStats == {NoRow} \cup [contributors_fetched : BOOLEAN]

\* A row of repository_contributors of the repository.
ContributorRow(login, contributions, source) ==
  [login |-> login, contributions |-> contributions, data_source |-> source]

OldRows == {{}, {ContributorRow(1, 4, "all_time")}, {ContributorRow(MaxLogins, 1, "recent")}}

InitContrib ==
  /\ contrib \in
       [service : ContribServices, rest : RestAnswers, stats : ContribStats, rows : OldRows,
        pc : {"rest"}, outcome : {"running"}, i : {0}, hasNextPage : {TRUE},
        requested : {0}, found : {[l \in Logins |-> 0]}, searched : {{}}]
  /\ NoBase /\ NoContribOthers

ContribFrame == UNCHANGED <<baseVars, contribOthers>>

\* saveContributorsToDB: mark the statistics row, DELETE the repository's
\* rows, INSERT the new ones; workerService UPDATEs the statistics row, the
\* other copy INSERTs it ON CONFLICT DO UPDATE.
saveContributorsToDB(c, contributors) ==
  [c EXCEPT !.stats = IF c.stats = NoRow /\ c.service = "worker" THEN NoRow
                      ELSE [contributors_fetched |-> TRUE],
            !.rows = contributors,
            !.pc = "done", !.outcome = "saved"]

\* The REST request and what fetchAndSaveContributors does with the answer.
ContribRest ==
  /\ contrib # NoRow /\ contrib.pc = "rest"
  /\ LET rest == contrib.rest
     IN contrib' =
          IF rest.status = NetworkError
          THEN [contrib EXCEPT !.pc = "done", !.outcome = "threw"]
          ELSE IF ResponseOk(rest.status)
          THEN IF rest.status = 204
               THEN \* response.json() of an empty body throws
                    [contrib EXCEPT !.pc = "done", !.outcome = "threw"]
               ELSE saveContributorsToDB(contrib,
                      {ContributorRow(l, 9, "all_time") : l \in rest.body})
          ELSE IF contrib.service = "contributors"
          THEN [contrib EXCEPT !.pc = "done", !.outcome = "skipped"]
          ELSE [contrib EXCEPT !.pc = "graphql"]
  /\ ContribFrame

\* One turn of `for (let i = 0; i < maxPages && hasNextPage; i++)`.
ContribScanPage(answer) ==
  /\ contrib # NoRow /\ contrib.pc = "graphql"
  /\ contrib.i < maxPages /\ contrib.hasNextPage
  /\ LET asked == [contrib EXCEPT !.requested = @ + 1]
     IN contrib' =
          IF answer.kind = "missing"
          THEN [asked EXCEPT !.pc = "done", !.outcome = "returned"]
          ELSE IF answer.kind = "error" THEN [asked EXCEPT !.i = @ + 1]
          ELSE IF answer.kind = "nohistory" THEN [asked EXCEPT !.pc = "enrich"]
          ELSE [asked EXCEPT !.i = @ + 1,
                             !.hasNextPage = answer.hasNextPage,
                             !.found = IF answer.author = NoUser THEN @
                                       ELSE [@ EXCEPT ![answer.author] = @ + 1]]
  /\ ContribFrame

\* After the loop: nothing found returns; otherwise every contributor found
\* is looked up with the Search API (total[l], 0 when the search fails) and
\* the list is saved as 'recent'.
ContribEnrichAndSave(total) ==
  /\ contrib # NoRow
  /\ \/ contrib.pc = "enrich"
     \/ contrib.pc = "graphql" /\ ~(contrib.i < maxPages /\ contrib.hasNextPage)
  /\ LET logins == {l \in Logins : contrib.found[l] > 0}
     IN contrib' =
          IF logins = {}
          THEN [contrib EXCEPT !.pc = "done", !.outcome = "returned"]
          ELSE saveContributorsToDB([contrib EXCEPT !.searched = logins],
                 {ContributorRow(l, Max(total[l], contrib.found[l]), "recent") : l \in logins})
  /\ ContribFrame

NextContrib ==
  \/ ContribRest
  \/ \E answer \in PageAnswers : ContribScanPage(answer)
  \/ \E total \in [Logins -> {0, 3}] : ContribEnrichAndSave(total)

SpecContrib == InitContrib /\ [][NextContrib]_vars

\* C12: a REST answer of 200 is saved as it is and no GraphQL request is
\* made; a REST answer of 403 or 204 is followed by the GraphQL scan, of at
\* least one and at most maxPages requests, and every contributor the scan
\* found is looked up with the Search API before the save.
C12_ContributorFallbackTiers ==
  (contrib # NoRow /\ contrib.pc = "done") =>
    /\ contrib.rest.status = 200 =>
         /\ contrib.requested = 0
         /\ contrib.outcome = "saved"
         /\ {r.login : r \in contrib.rows} = contrib.rest.body
    /\ contrib.rest.status \in {403, 204} =>
         /\ contrib.requested \in 1..maxPages
         /\ contrib.searched = {l \in Logins : contrib.found[l] > 0}

\* ------------------------------------------------------------ SpecPersona
\* developerWorkerService.calculatePersonas(repos, bio).  A text is the
\* sequence of its words; scores are kept in hundredths until the rounding.

MaxBioWords == 2       \* words of a bio
MaxPersonaRepos == 1   \* repositories analysed

Words == {"GPT", "Rust", "kernel", "awesome", "pipeline", "notes"}

\* String.prototype.toLowerCase, word by word
LowerWord(w) == CASE w = "GPT" -> "gpt" [] w = "Rust" -> "rust" [] OTHER -> w
toLowerCase(text) == [k \in 1..Len(text) |-> LowerWord(text[k])]

\* The keys of p, all 0 at first.
Personas ==
  {"ai_whisperer", "ml_engineer", "data_scientist", "computational_scientist",
   "data_engineer", "chain_architect", "cloud_native", "devops_deamon",
   "frontend_wizard", "ux_engineer", "mobile_maestro", "backend_behemoth",
   "systems_architect", "security_sentinel", "game_guru", "iot_tinkerer",
   "tooling_titan", "algorithm_alchemist", "qa_automator", "enterprise_architect"}

Pattern(key, times, keywords) == [persona |-> key, times |-> times, keywords |-> keywords]

\* One keyword of one word each.
W(words) == {<<w>> : w \in words}

\* The lines of score(): /\b(...)\b/.test(text) and the multiple of weight
\* added, in hundredths.  (c\+\+ and c# end in a non-word character, so \b
\* after them never holds before a space or the end of the text.)
ScoreLines ==
  << Pattern("ai_whisperer", 200, W({"gpt", "llm", "transformer", "neural"}) \cup {<<"generative", "ai">>}),
     Pattern("ml_engineer", 150, W({"pytorch", "tensorflow", "keras", "training", "inference", "huggingface", "model"})),
     Pattern("data_scientist", 100, W({"pandas", "numpy", "jupyter", "matplotlib", "analysis", "visualization", "insight"})),
     Pattern("computational_scientist", 200, W({"math", "mathematics", "physics", "simulation", "scientific", "scipy", "sympy", "julia", "fortran", "manim", "latex", "geometry", "calculus"})),
     Pattern("data_engineer", 150, W({"etl", "pipeline", "spark", "hadoop", "airflow", "databricks", "warehouse", "parquet"}) \cup {<<"big", "data">>}),
     Pattern("chain_architect", 200, W({"solidity", "ethereum", "web3", "defi", "nft", "dapp", "consensus"}) \cup {<<"smart", "contract">>}),
     Pattern("cloud_native", 150, W({"kubernetes", "k8s", "docker", "terraform", "aws", "gcp", "azure", "serverless", "cloud"})),
     Pattern("devops_deamon", 100, W({"ci/cd", "pipeline", "jenkins", "automation", "sre", "observability"}) \cup {<<"github", "actions">>}),
     Pattern("frontend_wizard", 100, W({"react", "vue", "angular", "svelte", "nextjs", "tailwind", "css", "html", "frontend"})),
     Pattern("ux_engineer", 150, W({"figma", "accessibility", "ui/ux", "interaction", "animation", "canvas"}) \cup {<<"design", "system">>}),
     Pattern("backend_behemoth", 100, W({"api", "graphql", "rest", "sql", "postgres", "redis", "kafka", "microservices", "distributed", "node", "express"})),
     Pattern("systems_architect", 250, W({"kernel", "os", "driver", "memory", "concurrency", "compiler", "assembly", "embedded", "low-level"}) \cup {<<"operating", "system">>}),
     Pattern("systems_architect", 100, W({"rust", "c", "zig"})),
     Pattern("mobile_maestro", 200, W({"ios", "android", "swift", "kotlin", "flutter"}) \cup {<<"react", "native">>, <<"mobile", "app">>}),
     Pattern("security_sentinel", 200, W({"security", "pentest", "hacking", "cryptography", "auth", "oauth", "owasp", "vulnerability"}) \cup {<<"red", "team">>}),
     Pattern("game_guru", 200, W({"unity", "unreal", "godot", "game", "graphics", "shader", "opengl", "vulkan", "3d"})),
     Pattern("iot_tinkerer", 200, W({"arduino", "raspberry", "esp32", "firmware", "robotics", "sensor", "iot", "mqtt"})),
     Pattern("tooling_titan", 150, W({"cli", "terminal", "plugin", "package", "library", "config", "linter", "bundler", "npm", "shell", "bash", "zsh", "dotfiles"})),
     Pattern("algorithm_alchemist", 200, W({"algorithm", "structure", "leetcode", "interview", "competitive", "solution"})),
     Pattern("qa_automator", 200, W({"testing", "selenium", "cypress", "playwright", "qa", "automation", "e2e"})),
     Pattern("enterprise_architect", 100, W({"java", "spring", "dotnet", "enterprise", "legacy", "soap", "architecture"})) >>

\* /\b(k1|k2|...)\b/.test(text): some keyword stands in the text as whole words.
RegexTest(keywords, text) ==
  \E kw \in keywords : \E k \in 1..Len(text) :
    k + Len(kw) - 1 <= Len(text) /\ SubSeq(text, k, k + Len(kw) - 1) = kw

\* score(text, weight), from line n on; weight in hundredths.
RECURSIVE score(_, _, _, _)
score(p, text, weight, n) ==
  IF n > Len(ScoreLines) THEN p
  ELSE LET line == ScoreLines[n]
       IN score(IF RegexTest(line.keywords, text)
                THEN [p EXCEPT ![line.persona] = @ + (weight * line.times) \div 100]
                ELSE p,
                text, weight, n + 1)

\* Math.log10 on the powers of ten.
Log10(n) == CASE n = 1 -> 0 [] n = 10 -> 1 [] n = 100 -> 2 [] n = 1000 -> 3

\* The text, the curation test and the weight of one repository.
RepoText(r) == toLowerCase(<<r.name>> \o r.description \o r.language \o r.topics)

isCuration(r) ==
  \/ RegexTest(W({"awesome", "list", "collection", "resources", "roadmap", "interview"}),
               toLowerCase(<<r.name>>))
  \/ RegexTest({<<"curated", "list">>, <<"collection", "of">>}, toLowerCase(r.description))

dynamicWeight(r) ==
  LET starLog == Log10(JsOr(r.stargazerCount, 0) + 1)
      weight == (10 + starLog * 5) * 100
  IN IF isCuration(r) THEN weight \div 10 ELSE weight

RECURSIVE scoreRepos(_, _)
scoreRepos(p, repos) ==
  IF repos = <<>> THEN p
  ELSE scoreRepos(score(p, RepoText(Head(repos)), dynamicWeight(Head(repos)), 1), Tail(repos))

\* Math.round of a non-negative number of hundredths.
MathRound(v) == (v + 50) \div 100

\* Mutant: the score is rounded and not capped.
FinalScoreUncapped(v) == MathRound(v)

\* Math.min(100, Math.round(p[k]))
FinalScore(v) == Min(100, MathRound(v))

calculatePersonas(repos, bio) ==
  LET zero == [k \in Personas |-> 0]
      p == scoreRepos(score(zero, toLowerCase(bio), 50 * 100, 1), repos)
  IN [k \in Personas |-> FinalScore(p[k])]

PersonaRepos ==
  [name : Words,
   description : {<<>>, <<"kernel">>, <<"curated", "list">>},
   language : {<<>>, <<"Rust">>},
   topics : {<<>>, <<"pipeline">>},
   stargazerCount : {0, 9, 999}]

InitPersona ==
  /\ persona \in [bio : SeqUpTo(Words, MaxBioWords),
                  repos : SeqUpTo(PersonaRepos, MaxPersonaRepos),
                  personas : {NoRow}]
  /\ NoBase /\ NoPersonaOthers

\* const personas = this.calculatePersonas(allReposForAnalysis, graphqlData.bio || "")
analysePersonas ==
  /\ persona # NoRow /\ persona.personas = NoRow
  /\ persona' = [persona EXCEPT !.personas = calculatePersonas(persona.repos, persona.bio)]
  /\ UNCHANGED <<baseVars, personaOthers>>

NextPersona == analysePersonas

SpecPersona == InitPersona /\ [][NextPersona]_vars

\* C13: every persona score calculatePersonas returns is in [0,100], and
\* all of them are 0 for an empty bio and no repository.
C13_PersonaScoresInRange ==
  (persona # NoRow /\ persona.personas # NoRow) =>
    /\ \A k \in Personas : persona.personas[k] \in 0..100
    /\ (persona.bio = <<>> /\ persona.repos = <<>>) =>
         \A k \in Personas : persona.personas[k] = 0

\* A developer whose bio and repository add up to more than 100 for one
\* persona, a fraction for another, and nothing for a third.
C13_Witness ==
  /\ persona # NoRow /\ persona.personas # NoRow
  /\ persona.repos # <<>>
  /\ persona.personas["systems_architect"] = 100
  /\ persona.personas["data_engineer"] \in 1..99
  /\ persona.personas["game_guru"] = 0

\* ---------------------------------------------------------------------------
\* SpecBadge: identifyBadges (developerWorkerService.ts 331-402).
\* A text is the sequence of its characters, so that toLowerCase and
\* String.includes are computed character by character.
\* ---------------------------------------------------------------------------
MaxBadgeWords == 2

UpperCase == <<"A", "B", "C", "D", "E", "F", "G", "H", "I", "J", "K", "L", "M", "N", "O", "P", "Q", "R", "S", "T", "U", "V", "W", "X", "Y", "Z">>
LowerCase == <<"a", "b", "c", "d", "e", "f", "g", "h", "i", "j", "k", "l", "m", "n", "o", "p", "q", "r", "s", "t", "u", "v", "w", "x", "y", "z">>

LowerChar(c) ==
  IF \E i \in 1..Len(UpperCase) : UpperCase[i] = c
  THEN LowerCase[CHOOSE i \in 1..Len(UpperCase) : UpperCase[i] = c]
  ELSE c

\* String.prototype.toLowerCase on a text
LowerChars(text) == [i \in 1..Len(text) |-> LowerChar(text[i])]

\* String.prototype.includes
includes(text, keyword) ==
  \E i \in 0..(Len(text) - Len(keyword)) :
    SubSeq(text, i + 1, i + Len(keyword)) = keyword

Space == <<" ">>

\* the keywords of each badge type tested on the text, in the order of the source
BadgeKeywords ==
  <<[type |-> "GDE",
      keywords |-> {<<"g", "o", "o", "g", "l", "e", " ", "d", "e", "v", "e", "l", "o", "p", "e", "r", " ", "e", "x", "p", "e", "r", "t">>,
                    <<"g", "d", "e">>,
                    <<"g", "o", "o", "g", "l", "e", " ", "e", "x", "p", "e", "r", "t">>}],
    [type |-> "MVP",
      keywords |-> {<<"m", "i", "c", "r", "o", "s", "o", "f", "t", " ", "m", "v", "p">>,
                    <<"m", "i", "c", "r", "o", "s", "o", "f", "t", " ", "m", "o", "s", "t", " ", "v", "a", "l", "u", "a", "b", "l", "e", " ", "p", "r", "o", "f", "e", "s", "s", "i", "o", "n", "a", "l">>}],
    [type |-> "GitHub Star",
      keywords |-> {<<"g", "i", "t", "h", "u", "b", " ", "s", "t", "a", "r">>,
                    <<"g", "i", "t", "h", "u", "b", "s", "t", "a", "r">>}],
    [type |-> "AWS Hero",
      keywords |-> {<<"a", "w", "s", " ", "h", "e", "r", "o">>,
                    <<"a", "w", "s", " ", "c", "o", "m", "m", "u", "n", "i", "t", "y", " ", "h", "e", "r", "o">>}],
    [type |-> "Docker Captain",
      keywords |-> {<<"d", "o", "c", "k", "e", "r", " ", "c", "a", "p", "t", "a", "i", "n">>}],
    [type |-> "CKA",
      keywords |-> {<<"c", "e", "r", "t", "i", "f", "i", "e", "d", " ", "k", "u", "b", "e", "r", "n", "e", "t", "e", "s", " ", "a", "d", "m", "i", "n", "i", "s", "t", "r", "a", "t", "o", "r">>,
                    <<"c", "k", "a">>}],
    [type |-> "AWS Solutions Architect",
      keywords |-> {<<"a", "w", "s", " ", "c", "e", "r", "t", "i", "f", "i", "e", "d", " ", "s", "o", "l", "u", "t", "i", "o", "n", "s", " ", "a", "r", "c", "h", "i", "t", "e", "c", "t">>,
                    <<"s", "o", "l", "u", "t", "i", "o", "n", "s", " ", "a", "r", "c", "h", "i", "t", "e", "c", "t", " ", "p", "r", "o", "f", "e", "s", "s", "i", "o", "n", "a", "l">>}],
    [type |-> "CISSP",
      keywords |-> {<<"c", "i", "s", "s", "p">>,
                    <<"c", "e", "r", "t", "i", "f", "i", "e", "d", " ", "i", "n", "f", "o", "r", "m", "a", "t", "i", "o", "n", " ", "s", "y", "s", "t", "e", "m", "s", " ", "s", "e", "c", "u", "r", "i", "t", "y", " ", "p", "r", "o", "f", "e", "s", "s", "i", "o", "n", "a", "l">>}],
    [type |-> "PSM",
      keywords |-> {<<"p", "r", "o", "f", "e", "s", "s", "i", "o", "n", "a", "l", " ", "s", "c", "r", "u", "m", " ", "m", "a", "s", "t", "e", "r">>,
                    <<"p", "s", "m", " ", "i">>,
                    <<"p", "s", "m", " ", "i", "i">>}],
    [type |-> "CCIE",
      keywords |-> {<<"c", "c", "i", "e">>,
                    <<"c", "i", "s", "c", "o", " ", "c", "e", "r", "t", "i", "f", "i", "e", "d", " ", "i", "n", "t", "e", "r", "n", "e", "t", "w", "o", "r", "k", " ", "e", "x", "p", "e", "r", "t">>}]>>

\* line 370: the company names tested on company.toLowerCase()
BigTech ==
  {<<"g", "o", "o", "g", "l", "e">>,
   <<"m", "e", "t", "a">>,
   <<"f", "a", "c", "e", "b", "o", "o", "k">>,
   <<"a", "m", "a", "z", "o", "n">>,
   <<"a", "p", "p", "l", "e">>,
   <<"n", "e", "t", "f", "l", "i", "x">>,
   <<"m", "i", "c", "r", "o", "s", "o", "f", "t">>,
   <<"u", "b", "e", "r">>,
   <<"a", "i", "r", "b", "n", "b">>}

\* lines 337-344: the first category whose keyword the text includes
GdeCategories ==
  <<[category |-> <<"Android">>, keywords |-> {<<"a", "n", "d", "r", "o", "i", "d">>}],
    [category |-> <<"Web">>, keywords |-> {<<"w", "e", "b">>}],
    [category |-> <<"Cloud">>, keywords |-> {<<"c", "l", "o", "u", "d">>, <<"g", "c", "p">>}],
    [category |-> <<"Machine Learning">>, keywords |-> {<<"m", "l">>, <<"m", "a", "c", "h", "i", "n", "e", " ", "l", "e", "a", "r", "n", "i", "n", "g">>}],
    [category |-> <<"Flutter">>, keywords |-> {<<"f", "l", "u", "t", "t", "e", "r">>}],
    [category |-> <<"Firebase">>, keywords |-> {<<"f", "i", "r", "e", "b", "a", "s", "e">>}],
    [category |-> <<"Angular">>, keywords |-> {<<"a", "n", "g", "u", "l", "a", "r">>}]>>

\* the words a bio and a company are made of
Word_Microsoft == <<"M", "i", "c", "r", "o", "s", "o", "f", "t">>
Word_MICROSOFT == <<"M", "I", "C", "R", "O", "S", "O", "F", "T">>
Word_MVP == <<"M", "V", "P">>
Word_mvp == <<"m", "v", "p">>
Word_Ogden == <<"O", "g", "d", "e", "n">>
Word_notes == <<"n", "o", "t", "e", "s">>
Word_Google == <<"G", "o", "o", "g", "l", "e">>
Word_Acme == <<"A", "c", "m", "e">>

BioWords == {Word_Microsoft, Word_MICROSOFT, Word_MVP, Word_mvp, Word_Ogden, Word_notes}
Companies == {<<>>, Word_Google, Word_Acme, Word_MVP}

RECURSIVE JoinWords(_)
JoinWords(words) ==
  IF words = <<>> THEN <<>>
  ELSE IF Len(words) = 1 THEN Head(words)
  ELSE Head(words) \o Space \o JoinWords(Tail(words))

BadgeBios == {JoinWords(words) : words \in SeqUpTo(BioWords, MaxBadgeWords)}

\* the text with the letter case the profile has
BadgeTextCased(bio, company) == bio \o Space \o company

\* line 333: const text = (bio + " " + company).toLowerCase()
BadgeText(bio, company) == LowerChars(bio \o Space \o company)

Matches(text, keywords) == \E k \in keywords : includes(text, k)

NoCategory == <<>>

\* lines 337-344
GdeCategory(text) ==
  LET hits == {i \in 1..Len(GdeCategories) : Matches(text, GdeCategories[i].keywords)}
  IN  IF hits = {} THEN <<"General">>
      ELSE GdeCategories[CHOOSE i \in hits : \A j \in hits : i <= j].category

\* one if (...) badges.push({ type })
BadgeFor(rule, text) ==
  IF Matches(text, rule.keywords)
  THEN <<[type |-> rule.type,
          category |-> IF rule.type = "GDE" THEN GdeCategory(text) ELSE NoCategory]>>
  ELSE <<>>

RECURSIVE KeywordBadges(_, _, _)
KeywordBadges(text, first, last) ==
  IF first > last THEN <<>>
  ELSE BadgeFor(BadgeKeywords[first], text) \o KeywordBadges(text, first + 1, last)

\* lines 370-372: tested on the company alone; the category is the company as
\* the profile spells it
AlumniBadge(company) ==
  IF Matches(LowerChars(company), BigTech)
  THEN <<[type |-> "Big Tech Alumni", category |-> company]>>
  ELSE <<>>

\* The badges in the order of the pushes: GDE .. Docker Captain, Big Tech
\* Alumni, CKA .. CCIE.  The repos parameter is not read.
identifyBadges(bio, company) ==
  LET text == BadgeText(bio, company)
  IN  KeywordBadges(text, 1, 5) \o AlumniBadge(company)
        \o KeywordBadges(text, 6, Len(BadgeKeywords))

InitBadge ==
  /\ badge \in [bio : BadgeBios, company : Companies, badges : {<<>>}, pc : {"start"}]
  /\ NoBase /\ NoBadgeOthers

\* line 303: this.identifyBadges(graphqlData.bio || "", graphqlData.company || "", ownedRepos)
analyseBadges ==
  /\ badge # NoRow /\ badge.pc = "start"
  /\ badge' = [badge EXCEPT !.badges = identifyBadges(badge.bio, badge.company),
                            !.pc = "done"]
  /\ UNCHANGED <<baseVars, badgeOthers>>

NextBadge == analyseBadges
SpecBadge == InitBadge /\ [][NextBadge]_vars

\* every keyword the text is searched for
RecognizedKeywords == UNION {BadgeKeywords[i].keywords : i \in 1..Len(BadgeKeywords)}

ContainsIgnoringCase(text, keyword) == includes(LowerChars(text), keyword)

BadgeTypes(badges) == {badges[i].type : i \in 1..Len(badges)}

\* C14 as stated: a bio containing "Microsoft MVP" in any letter case yields a
\* badge of type MVP, and a bio containing no recognized keyword (not even
\* the name of a company of line 370) yields an empty badge list.
C14_BadgesFromBioKeywords ==
  (badge # NoRow /\ badge.pc = "done") =>
    /\ ContainsIgnoringCase(badge.bio, LowerChars(Word_Microsoft \o Space \o Word_MVP))
         => "MVP" \in BadgeTypes(badge.badges)
    /\ (\A k \in RecognizedKeywords \cup BigTech : ~ContainsIgnoringCase(badge.bio, k))
         => badge.badges = <<>>

\* C14 amended: a bio containing "Microsoft MVP" in any letter case yields a
\* badge of type MVP; the badge list is empty when the bio and the company,
\* joined by a space, contain no recognized keyword in any letter case and
\* the company contains none of the company names of line 370.
C14_BadgesFromBioAndCompany ==
  (badge # NoRow /\ badge.pc = "done") =>
    /\ ContainsIgnoringCase(badge.bio, LowerChars(Word_Microsoft \o Space \o Word_MVP))
         => "MVP" \in BadgeTypes(badge.badges)
    /\ ( /\ \A k \in RecognizedKeywords :
              ~ContainsIgnoringCase(badge.bio \o Space \o badge.company, k)
         /\ \A c \in BigTech : ~ContainsIgnoringCase(badge.company, c) )
         => badge.badges = <<>>

\* a bio spelling "MICROSOFT mvp" has been given the MVP badge
C14_Witness ==
  /\ badge # NoRow /\ badge.pc = "done"
  /\ badge.bio = Word_MICROSOFT \o Space \o Word_mvp
  /\ "MVP" \in BadgeTypes(badge.badges)

\* a bio without any keyword and the company "Acme": no badge
C14_WitnessEmpty ==
  /\ badge # NoRow /\ badge.pc = "done" /\ badge.badges = <<>>
  /\ badge.bio = Word_notes /\ badge.company = Word_Acme

\* ---------------------------------------------------------------------------
\* SpecTop: syncQuick / syncComprehensive, the whole loop of
\* githubService.fetchTopReposWithCursor (lines 139-183) over the tables of
\* Spec.  A pass is a sequence of batches; each batch that is not empty is
\* saved in a transaction of its own.
\* ---------------------------------------------------------------------------
batchSize == 1            \* const batchSize = 20, scaled to the model
QuickLimit == 2           \* syncQuick: fetchTopReposWithCursor(300), scaled
ComprehensiveLimit == 3   \* syncComprehensive: fetchTopReposWithCursor(1000), scaled

TopIdle == [pc |-> "idle", totalLimit |-> 0, fetchedTotal |-> 0, fetched |-> {},
            error |-> "none", more |-> FALSE]

InitTop == NoBase /\ NoTopsyncOthers /\ topsync = TopIdle

TopFrame == UNCHANGED <<healthVars, pageVars, httpVars, filterVars, developers, topsyncOthers>>

\* syncQuick() and syncComprehensive(): let cursor = null; let fetchedTotal = 0
syncTop(totalLimit) ==
  /\ topsync # NoRow /\ topsync.pc \in {"idle", "done"}
  /\ clock < MaxClock
  /\ topsync' = [TopIdle EXCEPT !.pc = "loop", !.totalLimit = totalLimit]
  /\ UNCHANGED <<dbVars, lastOp>>
  /\ TopFrame

\* while (fetchedTotal < totalLimit), tested after a turn that did not break
TopAfterTurn(fetchedTotal, totalLimit, break) ==
  IF break \/ fetchedTotal >= totalLimit THEN "done" ELSE "loop"

\* One turn of the loop in which fetchBatchWithCursor throws: a rate-limit
\* message sleeps and continues at the same cursor, any other message breaks.
TopFetchThrows(rateLimit) ==
  /\ topsync # NoRow /\ topsync.pc = "loop"
  /\ topsync' = IF rateLimit
                THEN [topsync EXCEPT !.pc = "sleep", !.error = "rate limit"]
                ELSE [topsync EXCEPT !.pc = "done", !.error = "fetch"]
  /\ UNCHANGED <<dbVars, lastOp>>
  /\ TopFrame

\* await this.sleep(60000); continue: the while condition has not changed
TopWake ==
  /\ topsync # NoRow /\ topsync.pc = "sleep"
  /\ topsync' = [topsync EXCEPT !.pc = "loop"]
  /\ UNCHANGED <<dbVars, lastOp>>
  /\ TopFrame

\* One turn of the loop in which fetchBatchWithCursor answers repos and
\* hasNext.  A batch that is not empty is saved in a transaction; when a
\* statement raises, the ROLLBACK is followed by throw err, which the catch
\* of line 173 answers with break.
TopBatch(repos, hasNext) ==
  /\ topsync # NoRow /\ topsync.pc = "loop"
  /\ LET remaining == Min(batchSize, topsync.totalLimit - topsync.fetchedTotal)
         tx == SyncTx("top", repos, clock + 1)
         raised == repos # <<>> /\ tx.failed
         total == IF repos # <<>> /\ ~raised
                  THEN topsync.fetchedTotal + Len(repos) ELSE topsync.fetchedTotal
         \* (history) GitHub has further repositories the pass was to fetch
         more == /\ hasNext /\ Len(repos) = remaining
                 /\ topsync.fetchedTotal + Len(repos) < topsync.totalLimit
     IN /\ Len(repos) <= remaining
        /\ IF repos = <<>>
           THEN UNCHANGED <<dbVars, lastOp>>
           ELSE /\ clock < MaxClock
                /\ clock' = clock + 1
                /\ Commit(tx)
                /\ lastOp' = Op("sync", "top", IdsOf(repos), ~tx.failed, {})
        /\ topsync' =
             IF raised
             THEN [topsync EXCEPT !.pc = "done", !.error = "save", !.more = more]
             ELSE [topsync EXCEPT
                     !.fetchedTotal = total,
                     !.fetched = IF repos = <<>> THEN @ ELSE @ \cup IdsOf(repos),
                     !.error = "none", !.more = more,
                     !.pc = TopAfterTurn(total, topsync.totalLimit,
                                         ~hasNext \/ Len(repos) < remaining)]
  /\ TopFrame

NextTop ==
  \/ \E totalLimit \in {QuickLimit, ComprehensiveLimit} : syncTop(totalLimit)
  \/ \E rateLimit \in BOOLEAN : TopFetchThrows(rateLimit)
  \/ TopWake
  \/ \E repos \in Batches, hasNext \in BOOLEAN : TopBatch(repos, hasNext)

SpecTop == InitTop /\ [][NextTop]_vars

\* The job keeps running: a turn of the loop that can be taken is taken.  No
\* assumption is made on what GitHub answers.
SpecTopLive == SpecTop /\ WF_vars(NextTop)

\* C15: after a top sync completes, the repositories tagged top are exactly
\* the repositories fetched (and saved) in that pass.
C15_TopTagOnExactlyThePass ==
  (topsync # NoRow /\ topsync.pc = "done" /\ topsync.error = "none") =>
    \A g \in GithubIds :
      HasTag(repositories, g, "top") <=> g \in topsync.fetched

\* ----------------------------------------------------------- child tables

\* C16: a refresh of a repository's commit activity that fetched the week
\* array and returned leaves exactly the fetched weeks stored for the
\* repository, with no row of an earlier refresh.
C16_RefreshReplacesChildRows ==
  (activity # NoRow /\ activity.pc = "done" /\ activity.outcome = "returned"
     /\ activity.response = 200) =>
    activity.rows = {activity.weeks[k] : k \in 1..Len(activity.weeks)}

\* ---------------------------------------------------------------------------
\* SpecTopRepos: table developer_top_repos of one developer under repeated
\* runs of analyzeAndSaveDeveloper / saveDeveloperToDB
\* (developerWorkerService.ts 283, 312-326, 499-512).
\* ---------------------------------------------------------------------------
MaxOwned == 4      \* owned repositories the GraphQL answer may list
MaxRuns == 2       \* runs of analyzeAndSaveDeveloper in a behaviour

TopReposKept == 3  \* ownedRepos.slice(0, 3)

OwnedNames == {"a", "b", "c", "d"}
OwnedStars == {5, 9}

\* repositories(first: 20, orderBy: {field: STARGAZERS, direction: DESC},
\* isFork: false): distinct names, most stars first.
OwnedRepos ==
  {rs \in SeqUpTo([name : OwnedNames, stargazerCount : OwnedStars], MaxOwned) :
     /\ \A i, j \in 1..Len(rs) : i # j => rs[i].name # rs[j].name
     /\ \A i \in 1..(Len(rs) - 1) : rs[i].stargazerCount >= rs[i + 1].stargazerCount}

\* topRepos: ownedRepos.slice(0, 3)
TopRepos(ownedRepos) == SubSeq(ownedRepos, 1, Min(TopReposKept, Len(ownedRepos)))

\* INSERT INTO developer_top_repos (..., is_primary) VALUES (..., index === 0)
TopRepoRow(repo, index) ==
  [name |-> repo.name, stars_count |-> repo.stargazerCount, is_primary |-> index = 0]

\* if (data.topRepos && data.topRepos.length > 0) { DELETE ...; INSERT ... }
ReplaceTopRepos(rows, topRepos) ==
  IF Len(topRepos) > 0
  THEN [i \in 1..Len(topRepos) |-> TopRepoRow(topRepos[i], i - 1)]
  ELSE rows

InitTopRepos ==
  /\ toprepos = [rows |-> <<>>, topRepos |-> <<>>, runs |-> 0, saved |-> FALSE]
  /\ NoBase /\ NoTopreposOthers

\* One run for the developer: the profile's owned repositories, and the
\* transaction of saveDeveloperToDB, which rolls back when a statement raises.
saveTopRepos(ownedRepos, raises) ==
  /\ toprepos # NoRow /\ toprepos.runs < MaxRuns
  /\ LET topRepos == TopRepos(ownedRepos)
     IN toprepos' =
          [rows |-> IF raises THEN toprepos.rows
                    ELSE ReplaceTopRepos(toprepos.rows, topRepos),
           topRepos |-> topRepos,
           runs |-> toprepos.runs + 1,
           saved |-> ~raises]
  /\ UNCHANGED <<baseVars, topreposOthers>>

NextTopRepos ==
  \E ownedRepos \in OwnedRepos, raises \in BOOLEAN : saveTopRepos(ownedRepos, raises)

SpecTopRepos == InitTopRepos /\ [][NextTopRepos]_vars

StoredNames(rows) == {rows[i].name : i \in 1..Len(rows)}

\* C17: after a save of the developer, developer_top_repos holds exactly the
\* run's top owned repositories, at most 3 and none of an earlier run, and
\* when there are rows exactly one, the repository ranked first, is primary.
C17_TopReposAreTheRuns ==
  (toprepos # NoRow /\ toprepos.runs > 0 /\ toprepos.saved) =>
    /\ Len(toprepos.rows) <= TopReposKept
    /\ Len(toprepos.rows) = Len(toprepos.topRepos)
    /\ StoredNames(toprepos.rows) = StoredNames(toprepos.topRepos)
    /\ toprepos.rows # <<>> =>
         /\ Cardinality({i \in 1..Len(toprepos.rows) : toprepos.rows[i].is_primary}) = 1
         /\ \E i \in 1..Len(toprepos.rows) :
              /\ toprepos.rows[i].is_primary
              /\ \A j \in 1..Len(toprepos.rows) :
                   toprepos.rows[i].stars_count >= toprepos.rows[j].stars_count

\* ------------------------------------------------------------ batch loops

\* C18: in the top-repository sync, a batch whose save raised is rolled back
\* and skipped, and the loop goes on to the repositories that remain.
C18_FailureDoesNotHaltTheLoop ==
  [][(topsync # NoRow /\ topsync.pc = "loop" /\ topsync'.error = "save") =>
       /\ repositories' = repositories /\ repository_stats' = repository_stats
       /\ topsync'.more => topsync'.pc = "loop"]_vars

\* ---------------------------------------------------------------------------
\* SpecAtomic: the write of one sync batch with its connections and COMMITs.
\* githubService.fetchDetailsAndSave (107-137) and fetchTopReposWithCursor
\* (150-162) run the upserts on `client`, then call calculateAndSaveStats
\* (300-367), which takes a pool connection of its own and COMMITs there
\* before the caller's COMMIT.  newService.fetchDetailsAndSave (116-134)
\* passes its client on, so its statistics are part of the one transaction.
\* ---------------------------------------------------------------------------

\* The COMMIT that raises (the connection is lost), if any.
CommitOutcomes == {"none", "stats", "commit"}

\* githubService: two connections, two transactions.
githubSyncBatch(category, repos, raises) ==
  /\ category = "top" => repos # <<>>
  /\ Tick
  /\ LET outer   == batchInsertToTable(
                      Tx(ClearBeforePass(repositories, category), repository_stats),
                      repos, category, clock')
         inner   == calculateAndSaveStats(Tx(repositories, repository_stats), repos)
         innerOk == ~outer.failed /\ raises # "stats"
         outerOk == innerOk /\ raises # "commit"
     IN /\ repositories' = IF outerOk THEN outer.repos ELSE repositories
        /\ repository_stats' = IF innerOk THEN inner.stats ELSE repository_stats
        /\ lastOp' = Op("sync", category, IdsOf(repos), outerOk, {})

\* newService: the statistics are written through the caller's client.
archiveSyncBatch(category, repos, raises) ==
  /\ Tick
  /\ LET tx == SyncTx(category, repos, clock')
         ok == ~tx.failed /\ raises = "none"
     IN /\ repositories' = IF ok THEN tx.repos ELSE repositories
        /\ repository_stats' = IF ok THEN tx.stats ELSE repository_stats
        /\ lastOp' = Op("sync", category, IdsOf(repos), ok, {})

NextAtomic ==
  \/ \E c \in GitHubCategories \cup {"top"}, rs \in Batches, raises \in CommitOutcomes :
       githubSyncBatch(c, rs, raises)
  \/ \E c \in ArchiveCategories, rs \in Batches, raises \in {"none", "commit"} :
       archiveSyncBatch(c, rs, raises)

SpecAtomic == Init /\ [][NextAtomic]_vars

\* C19: the write of a sync batch is atomic: when it ends in an exception
\* neither repositories nor repository_stats has changed, and when it
\* commits every repository of the batch has its row in both tables.
C19_SyncBatchIsAtomic ==
  [][lastOp'.op = "sync" =>
       /\ ~lastOp'.ok =>
            repositories' = repositories /\ repository_stats' = repository_stats
       /\ lastOp'.ok =>
            \A g \in lastOp'.ids :
              repositories'[g] # NoRow /\ repository_stats'[g] # NoRow]_vars

\* ---------------------------------------------------------------------------
\* SpecConcurrent: POST /fetch-growing served twice at once: two runs of
\* githubService.fetchDetailsAndSave (107-137) interleaved statement by
\* statement, each in a transaction of its own at PostgreSQL's default
\* isolation level READ COMMITTED: a statement sees the committed rows and
\* its own transaction's writes, and waits for a row another open
\* transaction has written.
\* ---------------------------------------------------------------------------
RunIds == {1, 2}
OtherRun(r) == CHOOSE o \in RunIds : o # r

RunCategory == "growing"

IdleRun == [pc |-> "idle", repos |-> <<>>, next |-> 0, wrote |-> {},
            rows |-> [g \in GithubIds |-> NoRow], now |-> 0, ok |-> FALSE]

InitConcurrent == NoBase /\ NoRunsOthers /\ runs = [r \in RunIds |-> IdleRun]

RunsFrame == UNCHANGED <<lastOp, healthVars, pageVars, httpVars, filterVars, developers, runsOthers>>

\* What a statement of run r reads: its own writes over the committed table.
RunView(r) ==
  [g \in GithubIds |-> IF g \in runs[r].wrote THEN runs[r].rows[g] ELSE repositories[g]]

\* The rows the next statement of run r writes (or, for full_name, probes).
RunTargets(r) ==
  IF runs[r].pc = "clear"
  THEN {g \in GithubIds : RunView(r)[g] # NoRow /\ EqAny(RunCategory, RunView(r)[g].categories)}
  ELSE IF runs[r].pc = "upsert"
  THEN LET repo == runs[r].repos[runs[r].next]
       IN {repo.databaseId} \cup
          {g \in runs[OtherRun(r)].wrote :
             runs[OtherRun(r)].rows[g].full_name = repo.nameWithOwner}
  ELSE {}

\* The statement waits for a row lock the other transaction holds.
RunBlocked(r) == RunTargets(r) \cap runs[OtherRun(r)].wrote # {}

\* enrichWithGraphQL has answered; pool.connect(); BEGIN
RunBegin(r, validRepos) ==
  /\ runs # NoRow /\ runs[r].pc = "idle"
  /\ clock < MaxClock
  /\ clock' = clock + 1
  /\ runs' = [runs EXCEPT ![r] = [IdleRun EXCEPT !.pc = "clear", !.repos = validRepos,
                                                 !.now = clock + 1]]
  /\ UNCHANGED <<repositories, repository_stats>>
  /\ RunsFrame

\* UPDATE repositories SET categories = array_remove(categories, $1)
\* WHERE $1 = ANY(categories)
RunClear(r) ==
  /\ runs # NoRow /\ runs[r].pc = "clear" /\ ~RunBlocked(r)
  /\ runs' = [runs EXCEPT ![r] =
       [@ EXCEPT !.rows = ClearCategory(RunView(r), RunCategory),
                 !.wrote = @ \cup RunTargets(r),
                 !.next = 1,
                 !.pc = IF runs[r].repos = <<>> THEN "stats" ELSE "upsert"]]
  /\ UNCHANGED dbVars
  /\ RunsFrame

\* ROLLBACK; throw error
RunRolledBack(run) == [run EXCEPT !.pc = "done", !.ok = FALSE, !.wrote = {}]

\* One INSERT ... ON CONFLICT (github_id) DO UPDATE of batchInsertToTable.
RunUpsert(r) ==
  /\ runs # NoRow /\ runs[r].pc = "upsert" /\ ~RunBlocked(r)
  /\ LET repo == runs[r].repos[runs[r].next]
         tx   == UpsertRepository(Tx(RunView(r), repository_stats), repo,
                                  RunCategory, runs[r].now)
     IN runs' = [runs EXCEPT ![r] =
          IF tx.failed THEN RunRolledBack(@)
          ELSE [@ EXCEPT !.rows = tx.repos,
                         !.wrote = @ \cup {repo.databaseId},
                         !.next = @ + 1,
                         !.pc = IF runs[r].next = Len(runs[r].repos)
                                THEN "stats" ELSE "upsert"]]
  /\ UNCHANGED dbVars
  /\ RunsFrame

\* Both transactions wait for each other: PostgreSQL aborts one of them with
\* "deadlock detected".
RunDeadlock(r) ==
  /\ runs # NoRow /\ RunBlocked(r) /\ RunBlocked(OtherRun(r))
  /\ runs' = [runs EXCEPT ![r] = RunRolledBack(@)]
  /\ UNCHANGED dbVars
  /\ RunsFrame

\* this.calculateAndSaveStats(validRepos): committed on its own connection
RunStats(r) ==
  /\ runs # NoRow /\ runs[r].pc = "stats"
  /\ repository_stats' =
       calculateAndSaveStats(Tx(repositories, repository_stats), runs[r].repos).stats
  /\ runs' = [runs EXCEPT ![r].pc = "commit"]
  /\ UNCHANGED <<repositories, clock>>
  /\ RunsFrame

\* COMMIT
RunCommit(r) ==
  /\ runs # NoRow /\ runs[r].pc = "commit"
  /\ repositories' = RunView(r)
  /\ runs' = [runs EXCEPT ![r] = [@ EXCEPT !.pc = "done", !.ok = TRUE, !.wrote = {}]]
  /\ UNCHANGED <<repository_stats, clock>>
  /\ RunsFrame

NextConcurrent ==
  \E r \in RunIds :
    \/ \E validRepos \in Batches : RunBegin(r, validRepos)
    \/ RunClear(r)
    \/ RunUpsert(r)
    \/ RunDeadlock(r)
    \/ RunStats(r)
    \/ RunCommit(r)

SpecConcurrent == InitConcurrent /\ [][NextConcurrent]_vars

\* C20: when the two overlapping runs have both committed, the category tag
\* is held by exactly one run's result set, as after the two runs one after
\* the other.
C20_OverlappingRunsAsIfSerial ==
  (runs # NoRow /\ \A r \in RunIds : runs[r].pc = "done" /\ runs[r].ok) =>
    \E r \in RunIds :
      \A g \in GithubIds :
        HasTag(repositories, g, RunCategory) <=> g \in IdsOf(runs[r].repos)

\* ---------------------------------------------------------------------------
\* SpecGrowth: newService.syncTrendsFromGHArchive (49-98) for one period: the
\* BigQuery rows, their enrichment through GraphQL and the growth column
\* calculateAndSaveStats (145-218) writes.  GitHub answers a request for a
\* name with the repository that name leads to, under its current
\* nameWithOwner.
\* ---------------------------------------------------------------------------
MaxArchiveRows == 2   \* rows the BigQuery job returns

StarCountsOfPeriod == {3, 9}   \* COUNT(*) of WatchEvents, at least one per row

\* SELECT repo.name as full_name, COUNT(*) as star_count ... GROUP BY 1
ArchiveRows ==
  {rows \in SeqUpTo([full_name : FullNames, growthCount : StarCountsOfPeriod], MaxArchiveRows) :
     \A i, j \in 1..Len(rows) : i # j => rows[i].full_name # rows[j].full_name}

GrowthColumns == {"stars_growth_7d", "stars_growth_30d", "stars_growth_90d"}

\* stars_growth_7d INTEGER DEFAULT 0, ...
NewGrowthRow == [c \in GrowthColumns |-> 0]

\* lines 153-156
growthColumn(category) ==
  IF category = "trending_weekly" THEN "stars_growth_7d"
  ELSE IF category = "trending_monthly" THEN "stars_growth_30d"
  ELSE IF category = "trending_quarterly" THEN "stars_growth_90d"
  ELSE ""

\* new Map(); rawRepos.forEach(r => growthMap.set(r.full_name, r.growthCount)),
\* read with growthMap.get(name): NULL stands for undefined
growthMapGet(rawRepos, name) ==
  IF \E i \in 1..Len(rawRepos) : rawRepos[i].full_name = name
  THEN rawRepos[CHOOSE i \in 1..Len(rawRepos) : rawRepos[i].full_name = name].growthCount
  ELSE NULL

\* const growthCount = growthMap.get(repo.nameWithOwner) || 0
growthCountOf(rawRepos, repo) ==
  LET found == growthMapGet(rawRepos, repo.nameWithOwner)
  IN IF found = NULL THEN 0 ELSE JsOr(found, 0)

\* enrichWithGraphQL: the repositories GitHub answered, in request order
RECURSIVE enrichWithGraphQL(_, _)
enrichWithGraphQL(rawRepos, answers) ==
  IF rawRepos = <<>> THEN <<>>
  ELSE LET node == answers[Head(rawRepos).full_name]
           rest == enrichWithGraphQL(Tail(rawRepos), answers)
       IN IF node = NoNode THEN rest
          ELSE <<[databaseId |-> node.databaseId, nameWithOwner |-> node.nameWithOwner,
                  requested |-> Head(rawRepos).full_name]>> \o rest

\* INSERT INTO repository_stats (..., <growthColumn>) ... ON CONFLICT
\* (repo_github_id) DO UPDATE SET ..., <growthColumn> = $10, repository by
\* repository
RECURSIVE saveGrowthStats(_, _, _, _)
saveGrowthStats(stats, repos, category, rawRepos) ==
  IF repos = <<>> THEN stats
  ELSE LET repo == Head(repos)
           old  == IF stats[repo.databaseId] = NoRow THEN NewGrowthRow
                   ELSE stats[repo.databaseId]
           new  == [old EXCEPT ![growthColumn(category)] = growthCountOf(rawRepos, repo)]
       IN saveGrowthStats([stats EXCEPT ![repo.databaseId] = new],
                          Tail(repos), category, rawRepos)

\* What GitHub answers for each name: no repository, or a repository under
\* its current name.  A repository has one current name.
GraphQLAnswers ==
  {a \in [FullNames -> {NoNode} \cup [databaseId : GithubIds, nameWithOwner : FullNames]] :
     \A m, n \in FullNames :
       (a[m] # NoNode /\ a[n] # NoNode /\ a[m].databaseId = a[n].databaseId)
         => a[m].nameWithOwner = a[n].nameWithOwner}

InitGrowth ==
  /\ growth \in [category : ArchiveCategories, rows : ArchiveRows, answers : GraphQLAnswers,
                 stats : [GithubIds -> {NoRow, [NewGrowthRow EXCEPT !["stars_growth_7d"] = 5]}],
                 saved : {<<>>}, pc : {"start"}, ok : {FALSE}]
  /\ NoBase /\ NoGrowthOthers

\* syncWeekly / syncMonthly / syncQuarterly: the whole of
\* syncTrendsFromGHArchive; raises: a statement of the transaction raised.
syncTrendsFromGHArchive(raises) ==
  /\ growth # NoRow /\ growth.pc = "start"
  /\ LET validRepos == enrichWithGraphQL(growth.rows, growth.answers)
     IN growth' =
          IF growth.rows = <<>> THEN [growth EXCEPT !.pc = "done"]
          ELSE IF raises THEN [growth EXCEPT !.pc = "done"]
          ELSE [growth EXCEPT !.pc = "done", !.ok = TRUE, !.saved = validRepos,
                              !.stats = saveGrowthStats(@, validRepos, growth.category, growth.rows)]
  /\ UNCHANGED <<baseVars, growthOthers>>

NextGrowth == \E raises \in BOOLEAN : syncTrendsFromGHArchive(raises)

SpecGrowth == InitGrowth /\ [][NextGrowth]_vars

\* C21: after a GH-Archive sync that committed, every repository it saved
\* has, in the growth column of the period, the event count of the BigQuery
\* row it was fetched for.
C21_GrowthColumnHoldsEventCount ==
  (growth # NoRow /\ growth.pc = "done" /\ growth.ok) =>
    \A i \in 1..Len(growth.saved) :
      \E k \in 1..Len(growth.rows) :
        /\ growth.answers[growth.rows[k].full_name] # NoNode
        /\ growth.answers[growth.rows[k].full_name].databaseId = growth.saved[i].databaseId
        /\ growth.stats[growth.saved[i].databaseId][growthColumn(growth.category)]
             = growth.rows[k].growthCount

\* ----------------------------------------------------------- health formula

\* C22: for a repository that is neither archived nor disabled, the
\* health_score a REST/GraphQL sync stores is 50 plus the recency bonus (+30
\* within 7 days, +20 within 30, +10 within 90, -20 beyond 365), plus 10 for
\* active issues, plus 5 for discussions, plus 10 for a release within 90
\* days, clamped to [0,100].
C22_HealthScoreFormula ==
  [][(lastOp'.op = "stats_rest" /\ ~upstream.isArchived /\ ~upstream.isDisabled) =>
       health_score' =
         Max(0, Min(100,
           50
           + (IF upstream.daysSinceCommit = NULL THEN 0
              ELSE IF upstream.daysSinceCommit <= 7 THEN 30
              ELSE IF upstream.daysSinceCommit <= 30 THEN 20
              ELSE IF upstream.daysSinceCommit <= 90 THEN 10
              ELSE IF upstream.daysSinceCommit > 365 THEN 0 - 20
              ELSE 0)
           + (IF upstream.hasIssuesEnabled /\ upstream.issuesCount > 0 THEN 10 ELSE 0)
           + (IF upstream.hasDiscussionsEnabled THEN 5 ELSE 0)
           + (IF upstream.releaseAge # NULL /\ upstream.releaseAge <= 90 THEN 10 ELSE 0)))]_vars

\* ---------------------------------------------------------------------------
\* SpecWork: calculateCurrentWork (developerWorkerService.ts 561-598).
\* Dates are whole days before now; a score is an integer.
\* ---------------------------------------------------------------------------
MaxWorkRepos == 2   \* repositories of one profile (owned and contributed)

NinetyDays == 90    \* ninetyDaysAgo.setDate(ninetyDaysAgo.getDate() - 90)

\* r.recentCommits: NULL for an owned repository, which has no such field
RecentCommits == {NULL, 0, 1, 3}
DaysSincePush == {0, 5, 20, 95}

WorkRepos == SeqUpTo([recentCommits : RecentCommits, daysSincePush : DaysSincePush],
                     MaxWorkRepos)

\* .filter((r) => new Date(r.pushedAt) > ninetyDaysAgo)
PushedRecently(r) == r.daysSincePush < NinetyDays

\* const recentCommits = r.recentCommits || 1;
\* const score = (recentCommits * 10) - daysSincePush
pulse_score(r) ==
  (IF r.recentCommits = NULL THEN 1 ELSE JsOr(r.recentCommits, 1)) * 10 - r.daysSincePush

\* activeRepos.sort((a, b) => b.pulse_score - a.pulse_score): stable, descending
RECURSIVE InsertByPulse(_, _)
InsertByPulse(sorted, r) ==
  IF sorted = <<>> THEN <<r>>
  ELSE IF pulse_score(Head(sorted)) >= pulse_score(r)
  THEN <<Head(sorted)>> \o InsertByPulse(Tail(sorted), r)
  ELSE <<r>> \o sorted

RECURSIVE SortByPulse(_)
SortByPulse(repos) ==
  IF repos = <<>> THEN <<>>
  ELSE InsertByPulse(SortByPulse(SubSeq(repos, 1, Len(repos) - 1)), repos[Len(repos)])

\* next.pulse_score >= current.pulse_score * 0.8
WithinEightyPercent(next, current) == 10 * pulse_score(next) >= 8 * pulse_score(current)

calculateCurrentWork(repos) ==
  LET activeRepos == SortByPulse(SelectSeq(repos, PushedRecently))
  IN IF Len(activeRepos) = 0 THEN [status |-> "dormant", repos |-> <<>>]
     ELSE IF Len(activeRepos) >= 2 /\ WithinEightyPercent(activeRepos[2], activeRepos[1])
     THEN [status |-> "multi_tasking", repos |-> <<activeRepos[1], activeRepos[2]>>]
     ELSE [status |-> "focused", repos |-> <<activeRepos[1]>>]

InitWork ==
  /\ work \in [repos : WorkRepos, current : {NoRow}]
  /\ NoBase /\ NoWorkOthers

\* line 295: this.calculateCurrentWork([...ownedRepos, ...contributedRepos], login)
analyseCurrentWork ==
  /\ work # NoRow /\ work.current = NoRow
  /\ work' = [work EXCEPT !.current = calculateCurrentWork(work.repos)]
  /\ UNCHANGED <<baseVars, workOthers>>

NextWork == analyseCurrentWork

SpecWork == InitWork /\ [][NextWork]_vars

\* the scores of the repositories pushed within 90 days as the claim counts them
QualifyingScores(repos) ==
  {i \in 1..Len(repos) : repos[i].daysSincePush < NinetyDays}

\* C23: the status is dormant exactly when no repository was pushed within
\* 90 days; when the two highest scores are equal the status is
\* multi_tasking with two repositories; focused returns one repository.
C23_CurrentWorkClassification ==
  (work # NoRow /\ work.current # NoRow) =>
    /\ work.current.status = "dormant" <=> QualifyingScores(work.repos) = {}
    /\ work.current.status = "focused" => Len(work.current.repos) = 1
    /\ (\E i, j \in QualifyingScores(work.repos) :
          /\ i # j
          /\ pulse_score(work.repos[i]) = pulse_score(work.repos[j])
          /\ \A k \in QualifyingScores(work.repos) :
               pulse_score(work.repos[k]) <= pulse_score(work.repos[i]))
         => /\ work.current.status = "multi_tasking"
            /\ Len(work.current.repos) = 2

\* ------------------------------------------------------------ termination

\* C24: whatever GitHub answers, rate-limit errors included, a pass of
\* fetchTopReposWithCursor that has started eventually returns.
C24_TopSyncTerminates ==
  (topsync # NoRow /\ topsync.pc = "loop") ~> (topsync # NoRow /\ topsync.pc = "done")

\* A pass never counts more saved repositories than its totalLimit.
TopSavedWithinLimit ==
  topsync # NoRow => topsync.fetchedTotal <= topsync.totalLimit

\* ---------------------------------------------------------------- stub tag

\* C25: a repository carries the 'stub' tag in categories if and only if its
\* sync_status is 'stub'.
C25_StubTagAgreesWithStatus ==
  \A g \in GithubIds :
    repositories[g] # NoRow =>
      (HasTag(repositories, g, "stub") <=> repositories[g].sync_status = "stub")

\* ---------------------------------------------------------------------------
\* SpecEmbed: embedRepositories (embeddingService, lines 25-74): the loop
\* over the repositories WHERE embedding IS NULL.
\* ---------------------------------------------------------------------------
MaxEmbedRepos == 4     \* rows of table repositories
EmbedBatchLimit == 2   \* LIMIT 50, scaled to the model

EmbedRepos == 1..MaxEmbedRepos

InitEmbed ==
  /\ embed \in [embedded : [EmbedRepos -> BOOLEAN],   \* embedding IS NOT NULL
                rows : {{}}, failed : {{}}, pc : {"query"}]
  /\ NoBase /\ NoEmbedOthers

\* SELECT ... WHERE embedding IS NULL LIMIT 50: any rows among those without
\* an embedding, as many as the limit allows.
EmbedSelections(embedded) ==
  LET missing == {r \in EmbedRepos : ~embedded[r]}
  IN {rows \in SUBSET missing :
        Cardinality(rows) = Min(EmbedBatchLimit, Cardinality(missing))}

\* One turn of while (true): the query, and the batch if there is one.  For
\* the rows in failed, generateEmbeddingLocal or the UPDATE throws, and the
\* catch of line 66 logs it.
embedBatch(rows, failed) ==
  /\ embed # NoRow /\ embed.pc = "query"
  /\ rows \in EmbedSelections(embed.embedded)
  /\ failed \subseteq rows
  /\ embed' =
       IF rows = {} THEN [embed EXCEPT !.pc = "done", !.rows = {}, !.failed = {}]
       ELSE [embedded |-> [r \in EmbedRepos |->
                             embed.embedded[r] \/ r \in rows \ failed],
             rows |-> rows, failed |-> failed, pc |-> "pause"]
  /\ UNCHANGED <<baseVars, embedOthers>>

\* await new Promise(resolve => setTimeout(resolve, 100))
embedPause ==
  /\ embed # NoRow /\ embed.pc = "pause"
  /\ embed' = [embed EXCEPT !.pc = "query"]
  /\ UNCHANGED <<baseVars, embedOthers>>

NextEmbed ==
  \/ \E rows \in SUBSET EmbedRepos, failed \in SUBSET EmbedRepos : embedBatch(rows, failed)
  \/ embedPause

\* The job keeps running; nothing is assumed about which embeddings fail.
SpecEmbed == InitEmbed /\ [][NextEmbed]_vars /\ WF_vars(NextEmbed)

\* C26: embedRepositories eventually returns, even when the embedding of
\* some repository fails.
C26_EmbedRepositoriesTerminates ==
  <>(embed # NoRow /\ embed.pc = "done")

\* ---------------------------------------------------------------------------
\* SpecBackfill: updateMissingContributors and processContributorsBatch
\* (workerService, lines 190-224), run again and again by the scheduler.
\* ---------------------------------------------------------------------------
MaxBackfillRepos == 3   \* rows of table repositories
BackfillLimit == 2      \* LIMIT 50, scaled to the model

\* A repository is named by its rank in ORDER BY stars_count DESC.
BackfillRepos == 1..MaxBackfillRepos

InitBackfill ==
  /\ backfill \in [complete : SUBSET BackfillRepos,          \* sync_status = 'complete'
                   fetched : [BackfillRepos -> BOOLEAN],     \* contributors_fetched
                   attempted : {{}}, pc : {"scheduled"}]
  /\ NoBase /\ NoBackfillOthers

\* WHERE r.sync_status = 'complete' AND (rs.contributors_fetched IS FALSE OR
\* rs.contributors_fetched IS NULL)
BackfillEligible(b) == {r \in b.complete : ~b.fetched[r]}

\* ORDER BY r.stars_count DESC LIMIT 50: the eligible rows of highest rank.
BackfillRows(b) ==
  {r \in BackfillEligible(b) :
     Cardinality({q \in BackfillEligible(b) : q < r}) < BackfillLimit}

\* One run of updateMissingContributors.  fetchAndSaveContributors sets the flag of the rows
\* it saves; for the rows in failed it throws, and the catch of line 218 logs.
processContributorsBatch(failed) ==
  /\ backfill # NoRow /\ backfill.pc = "scheduled"
  /\ failed \subseteq BackfillRows(backfill)
  /\ backfill' =
       [backfill EXCEPT
          !.fetched = [r \in BackfillRepos |->
                         @[r] \/ r \in BackfillRows(backfill) \ failed],
          !.attempted = @ \cup BackfillRows(backfill),
          !.pc = "ran"]
  /\ UNCHANGED <<baseVars, backfillOthers>>

\* The scheduler starts the next run.
backfillSchedule ==
  /\ backfill # NoRow /\ backfill.pc = "ran"
  /\ backfill' = [backfill EXCEPT !.pc = "scheduled"]
  /\ UNCHANGED <<baseVars, backfillOthers>>

NextBackfill ==
  \/ \E failed \in SUBSET BackfillRepos : processContributorsBatch(failed)
  \/ backfillSchedule

\* The job is run for ever; nothing is assumed about which fetches fail.
SpecBackfill == InitBackfill /\ [][NextBackfill]_vars /\ WF_vars(NextBackfill)

\* C27: every complete repository whose flag is false is eventually
\* attempted by some run of the 'missing' job.
C27_NoEligibleRepositoryStarved ==
  \A r \in BackfillRepos :
    (backfill # NoRow /\ r \in BackfillEligible(backfill))
      ~> (backfill # NoRow /\ r \in backfill.attempted)

\* ---------------------------------------------------------------------------
\* SpecPool: the connection pool of db.ts (new Pool without max or
\* connectionTimeoutMillis: at most PoolMax clients, a connect() beyond
\* that waits until a client is released) and the jobs that hold one client
\* while asking for a second: processContributorsBatch (workerService, lines
\* 204-224) and fetchDetailsAndSave with calculateAndSaveStats
\* (githubService, lines 107-137 and 300-367).
\* ---------------------------------------------------------------------------
MaxJobs == 4    \* jobs running at once
PoolMax == 3    \* size of the pool (10 by default), scaled to the model
MaxItems == 3   \* saves of one job, each through a second client

Jobs == 1..MaxJobs

InitPool ==
  /\ conns = [pc |-> [j \in Jobs |-> "idle"], items |-> [j \in Jobs |-> 0]]
  /\ NoBase /\ NoConnsOthers

\* clients a job has checked out
HeldBy(c, j) ==
  CASE c.pc[j] = "idle" -> 0
    [] c.pc[j] = "holding" -> 1
    [] c.pc[j] = "saving" -> 2

RECURSIVE CheckedOut(_, _)
CheckedOut(c, n) == IF n = 0 THEN 0 ELSE HeldBy(c, n) + CheckedOut(c, n - 1)

PoolFree(c) == PoolMax - CheckedOut(c, MaxJobs)

\* const client = await pool.connect() at the start of the job (line 205 of
\* workerService, line 114 of githubService); the job has n saves ahead.
jobConnect(j, n) ==
  /\ conns # NoRow /\ conns.pc[j] = "idle"
  /\ PoolFree(conns) > 0
  /\ conns' = [conns EXCEPT !.pc[j] = "holding", !.items[j] = n]
  /\ UNCHANGED <<baseVars, connsOthers>>

\* The second pool.connect(), in saveContributorsToDB or in
\* calculateAndSaveStats (line 301), while the first client is checked out.
saveConnect(j) ==
  /\ conns # NoRow /\ conns.pc[j] = "holding" /\ conns.items[j] > 0
  /\ PoolFree(conns) > 0
  /\ conns' = [conns EXCEPT !.pc[j] = "saving"]
  /\ UNCHANGED <<baseVars, connsOthers>>

\* client.release() of the second client (line 365 of githubService)
saveRelease(j) ==
  /\ conns # NoRow /\ conns.pc[j] = "saving"
  /\ conns' = [conns EXCEPT !.pc[j] = "holding", !.items[j] = @ - 1]
  /\ UNCHANGED <<baseVars, connsOthers>>

\* finally { client.release() } of the first client (lines 221-223, 134-136)
jobRelease(j) ==
  /\ conns # NoRow /\ conns.pc[j] = "holding" /\ conns.items[j] = 0
  /\ conns' = [conns EXCEPT !.pc[j] = "idle"]
  /\ UNCHANGED <<baseVars, connsOthers>>

JobStep(j) ==
  \/ \E n \in 1..MaxItems : jobConnect(j, n)
  \/ saveConnect(j)
  \/ saveRelease(j)
  \/ jobRelease(j)

NextPool == \E j \in Jobs : JobStep(j)

\* Every job goes on whenever the pool lets it: a connect() that can be
\* served again and again is served (the pool serves its queue in order).
SpecPool ==
  InitPool /\ [][NextPool]_vars /\ \A j \in Jobs : SF_vars(JobStep(j))

\* C28: a job that holds one client and asks for a second one always
\* eventually obtains it.
C28_SecondConnectionIsObtained ==
  \A j \in Jobs :
    (conns # NoRow /\ conns.pc[j] = "holding" /\ conns.items[j] > 0)
      ~> (conns # NoRow /\ conns.pc[j] = "saving")

\* ---------------------------------------------------------------------------
\* SpecDevList: DeveloperList (lines 1017-1065): the effect that calls
\* fetchDevelopers whenever the view or a filter changes, and the responses,
\* which settle in any order.
\* ---------------------------------------------------------------------------
MaxFetches == 3   \* requests sent by one component

ViewTypes == {"top", "rising", "expert", "badge"}
Languages == {"", "TypeScript"}   \* "" is selectedLang === null

\* The request fetchDevelopers sends: the url is built from the state of the
\* render that started it.
DevRequest(id, viewType, selectedLang) ==
  [id |-> id, type |-> viewType, language |-> selectedLang]

\* After mounting: the effect of line 1018 has sent the first fetched.
InitDevList ==
  /\ devlist = [viewType |-> "top", selectedLang |-> "",
                devs |-> NoRow, isLoading |-> TRUE,
                inflight |-> {DevRequest(1, "top", "")},
                sent |-> 1, latestOk |-> FALSE]
  /\ NoBase /\ NoDevlistOthers

\* The user selects a view or a language; the effect runs fetchDevelopers up
\* to its await fetch(url).
fetchDevelopers(viewType, selectedLang) ==
  /\ devlist # NoRow /\ devlist.sent < MaxFetches
  /\ <<viewType, selectedLang>> # <<devlist.viewType, devlist.selectedLang>>
  /\ devlist' =
       [devlist EXCEPT
          !.viewType = viewType, !.selectedLang = selectedLang,
          !.isLoading = TRUE,
          !.inflight = @ \cup {DevRequest(devlist.sent + 1, viewType, selectedLang)},
          !.sent = @ + 1, !.latestOk = FALSE]
  /\ UNCHANGED <<baseVars, devlistOthers>>

\* A response arrives: setDevs(filtered), then the finally of line 1062.  The
\* list shown is the answer to the request's own url.
devResponse(fetched) ==
  /\ devlist # NoRow /\ fetched \in devlist.inflight
  /\ devlist' =
       [devlist EXCEPT
          !.devs = [type |-> fetched.type, language |-> fetched.language],
          !.isLoading = FALSE,
          !.inflight = @ \ {fetched},
          !.latestOk = @ \/ fetched.id = devlist.sent]
  /\ UNCHANGED <<baseVars, devlistOthers>>

\* fetch or res.json() rejects: the catch of line 1060 logs, the list stays.
devFailure(fetched) ==
  /\ devlist # NoRow /\ fetched \in devlist.inflight
  /\ devlist' = [devlist EXCEPT !.isLoading = FALSE, !.inflight = @ \ {fetched}]
  /\ UNCHANGED <<baseVars, devlistOthers>>

InFlight == IF devlist = NoRow THEN {} ELSE devlist.inflight

NextDevList ==
  \/ \E viewType \in ViewTypes, selectedLang \in Languages :
       fetchDevelopers(viewType, selectedLang)
  \/ \E fetched \in InFlight : devResponse(fetched)
  \/ \E fetched \in InFlight : devFailure(fetched)

SpecDevList == InitDevList /\ [][NextDevList]_vars

\* C29: once every fetched has settled (the latest one with a response), the
\* list shown is the answer for the view and filters selected last.
C29_LatestSelectionIsShown ==
  (devlist # NoRow /\ devlist.inflight = {} /\ devlist.latestOk)
    => devlist.devs = [type |-> devlist.viewType, language |-> devlist.selectedLang]

\* ---------------------------------------------------------------------------
\* SpecSession: the filters of DeveloperList and sessionStorage (lines
\* 961-1012 and 1116-1125).  "" stands for null and for an absent key.
\* ---------------------------------------------------------------------------
PersonaFilters == {"", "ai_whisperer"}
BadgeFilters == {"", "GDE"}

\* sessionStorage: lang[v] is key filter_lang_<v>, persona is key
\* filter_persona_expert, badge is key filter_badge_badge.
EmptyStorage ==
  [lang |-> [v \in ViewTypes |-> ""], persona |-> "", badge |-> ""]

\* The persistence effect (lines 961-982), run with the state of one render.
persistFilters(storage, viewType, selectedLang, selectedPersona, selectedBadge) ==
  [lang |-> [storage.lang EXCEPT ![viewType] = selectedLang],
   persona |-> IF viewType = "expert" THEN selectedPersona ELSE "",
   badge |-> IF viewType = "badge" THEN selectedBadge ELSE ""]

\* After mounting on /developers with an empty sessionStorage.  chosen is
\* what the user selected last in each view, kept in the shape of storage.
InitSession ==
  /\ session = [viewType |-> "top", selectedLang |-> "", selectedPersona |-> "",
                selectedBadge |-> "", storage |-> EmptyStorage,
                chosen |-> EmptyStorage]
  /\ NoBase /\ NoSessionOthers

\* A click on a language, persona or badge chip (lines 1446, 1502, 1554) and
\* the persistence effect of the render that follows.
selectFilter(newLang, newPersona, newBadge) ==
  /\ session # NoRow
  /\ <<newLang, newPersona, newBadge>> #
       <<session.selectedLang, session.selectedPersona, session.selectedBadge>>
  /\ newPersona # session.selectedPersona => session.viewType = "expert"
  /\ newBadge # session.selectedBadge => session.viewType = "badge"
  /\ session' =
       [session EXCEPT
          !.selectedLang = newLang, !.selectedPersona = newPersona,
          !.selectedBadge = newBadge,
          !.storage = persistFilters(@, session.viewType, newLang, newPersona, newBadge),
          !.chosen = [lang |-> [@.lang EXCEPT ![session.viewType] = newLang],
                      persona |-> IF session.viewType = "expert"
                                  THEN newPersona ELSE @.persona,
                      badge |-> IF session.viewType = "badge"
                                THEN newBadge ELSE @.badge]]
  /\ UNCHANGED <<baseVars, sessionOthers>>

\* handleSidebarClick: navigate and setViewType(view) give one render with
\* the new view and the filters of the old one.  Its effects run in order:
\* persistence (viewType changed), then restore (searchParams changed); the
\* restored filters give another render and another persistence.
handleSidebarClick(view) ==
  /\ session # NoRow /\ view # session.viewType
  /\ LET stale == persistFilters(session.storage, view, session.selectedLang,
                                 session.selectedPersona, session.selectedBadge)
         savedLang == stale.lang[view]
         savedPersona == IF view = "expert" THEN stale.persona ELSE ""
         savedBadge == IF view = "badge" THEN stale.badge ELSE ""
     IN session' =
          [session EXCEPT
             !.viewType = view,
             !.selectedLang = savedLang, !.selectedPersona = savedPersona,
             !.selectedBadge = savedBadge,
             !.storage = persistFilters(stale, view, savedLang, savedPersona, savedBadge)]
  /\ UNCHANGED <<baseVars, sessionOthers>>

NextSession ==
  \/ \E newLang \in Languages, newPersona \in PersonaFilters,
          newBadge \in BadgeFilters :
       selectFilter(newLang, newPersona, newBadge)
  \/ \E view \in ViewTypes : handleSidebarClick(view)

SpecSession == InitSession /\ [][NextSession]_vars

\* C30: every key of sessionStorage holds the filter selected last in its own
\* view, and the filters shown are those selected last in the current view.
C30_FiltersRememberedPerView ==
  session # NoRow =>
    /\ session.storage = session.chosen
    /\ session.selectedLang = session.chosen.lang[session.viewType]
    /\ session.viewType = "expert" => session.selectedPersona = session.chosen.persona
    /\ session.viewType = "badge" => session.selectedBadge = session.chosen.badge

============================================================================
